---- MODULE Spec2Model ----
(***************************************************************************)
(* Model of the codeecho-cli scanning pipeline: the directory walk, the    *)
(* exclusion / inclusion filters, the streaming scanner                    *)
(* (StreamingScanner.Scan, processFile) and the batch scanners             *)
(* (AnalysisScanner.Scan in its two versions).                             *)
(*                                                                         *)
(* Strings are sequences of one-character strings so that ToLower,         *)
(* HasSuffix, filepath.Ext and the ordinal string order are computed the   *)
(* way the Go library computes them.                                       *)
(***************************************************************************)
EXTENDS Integers, Sequences, FiniteSets, TLC

(***************************************************************************)
(* Bounds of the model.                                                    *)
(***************************************************************************)
\* at most this many regular files in the scanned tree
MaxFiles == 2
\* at most this many entries of the tree fail (unreadable or vanished)
MaxFaults == 1

(***************************************************************************)
(* Characters and strings.                                                 *)
(***************************************************************************)
NUL == "NUL"
\* a byte that is never part of well-formed UTF-8
BAD == "0xFF"
LF == "\n"
TAB == "\t"

LowerLetters ==
  << "a", "b", "c", "d", "e", "f", "g", "h", "i", "j", "k", "l", "m",
     "n", "o", "p", "q", "r", "s", "t", "u", "v", "w", "x", "y", "z" >>

UpperLetters ==
  << "A", "B", "C", "D", "E", "F", "G", "H", "I", "J", "K", "L", "M",
     "N", "O", "P", "Q", "R", "S", "T", "U", "V", "W", "X", "Y", "Z" >>

\* byte value of every character the model uses
Ord ==
  (NUL :> 0) @@ (BAD :> 255) @@ (TAB :> 9) @@ (LF :> 10) @@ (" " :> 32) @@ ("!" :> 33) @@
  ("#" :> 35) @@ ("*" :> 42) @@ ("-" :> 45) @@ ("." :> 46) @@ ("/" :> 47) @@
  ("1" :> 49) @@ ("2" :> 50) @@ (":" :> 58) @@ ("<" :> 60) @@ ("=" :> 61) @@
  (">" :> 62) @@ ("[" :> 91) @@ ("]" :> 93) @@
  [c \in {UpperLetters[i] : i \in 1..26} |->
      64 + CHOOSE i \in 1..26 : UpperLetters[i] = c] @@
  [c \in {LowerLetters[i] : i \in 1..26} |->
      96 + CHOOSE i \in 1..26 : LowerLetters[i] = c]

Chars == DOMAIN Ord

\* unicode.ToLower on one ASCII character: the upper-case letters are the
\* bytes 65..90 and each maps to the byte 32 above it
LowerChar(c) ==
  IF \E i \in 1..26 : UpperLetters[i] = c
  THEN LowerLetters[CHOOSE i \in 1..26 : UpperLetters[i] = c]
  ELSE c

\* strings.ToLower
ToLower(s) == [i \in DOMAIN s |-> LowerChar(s[i])]

\* strings.HasSuffix
HasSuffix(s, suffix) ==
  /\ Len(suffix) <= Len(s)
  /\ SubSeq(s, Len(s) - Len(suffix) + 1, Len(s)) = suffix

\* Go's < on strings: byte-wise lexicographic order
RECURSIVE StrLess(_, _)
StrLess(s, t) ==
  IF t = <<>> THEN FALSE
  ELSE IF s = <<>> THEN TRUE
  ELSE IF s[1] # t[1] THEN Ord[s[1]] < Ord[t[1]]
  ELSE StrLess(Tail(s), Tail(t))

\* strings.Join(parts, sep)
RECURSIVE Join(_, _)
Join(parts, sep) ==
  IF parts = <<>> THEN <<>>
  ELSE IF Len(parts) = 1 THEN parts[1]
  ELSE parts[1] \o sep \o Join(Tail(parts), sep)

\* index of the last occurrence of character c in s, 0 when absent
LastIndex(s, c) ==
  IF \E i \in DOMAIN s : s[i] = c
  THEN CHOOSE i \in DOMAIN s : s[i] = c /\ \A j \in DOMAIN s : s[j] = c => j <= i
  ELSE 0

\* filepath.Base of a slash-separated path without trailing slash
Base(path) == SubSeq(path, LastIndex(path, "/") + 1, Len(path))

\* filepath.Ext: the suffix beginning at the final dot of the final element
Ext(path) ==
  LET b == Base(path) IN
  IF LastIndex(b, ".") = 0 THEN <<>> ELSE SubSeq(b, LastIndex(b, "."), Len(b))

(***************************************************************************)
(* The scanned directory tree.  An entry is named by the sequence of its   *)
(* path components below the root; the root itself is the empty sequence.  *)
(***************************************************************************)
\* the entries a tree of the model may contain; a file's size in bytes is
\* the length of its content
Slots ==
  { [path |-> << <<"a">> >>, dir |-> TRUE, content |-> <<>>],
    [path |-> << <<"a">>, <<"m", ".", "G", "O">> >>, dir |-> FALSE, content |-> <<"x", LF, LF, "y">>],
    [path |-> << <<"a">>, <<"b">> >>, dir |-> TRUE, content |-> <<>>],
    [path |-> << <<"a">>, <<"b">>, <<"c", ".", "g", "o">> >>, dir |-> FALSE, content |-> <<"y", NUL, " ", LF>>],
    [path |-> << <<"a", ".", "g", "o">> >>, dir |-> FALSE, content |-> <<"x", "/", "/", "<", "h", "t", "m", "l">>],
    [path |-> << <<"b">> >>, dir |-> TRUE, content |-> <<>>],
    [path |-> << <<"b">>, <<"d", ".", "g", "o">> >>, dir |-> FALSE, content |-> <<"/", "*", "c", "*", "/", "x">>],
    [path |-> << <<"g", "o">> >>, dir |-> FALSE, content |-> <<"#", "!", "s", "h", LF>>],
    [path |-> << <<"n", "e", "w", "s">> >>, dir |-> FALSE, content |-> <<"<", "h", "t", "m", "l", ">">>],
    [path |-> << <<"t", "o", "d", "o">> >>, dir |-> FALSE, content |-> <<"#", "!", "b", "a", "s", "h", LF, "x", LF>>] }

\* the components of the root path as the caller passed it
RootNames == { <<"r">>, <<"b">> }

Parent(path) == SubSeq(path, 1, Len(path) - 1)

IsUnder(path, dirPath) ==
  /\ Len(dirPath) < Len(path)
  /\ SubSeq(path, 1, Len(dirPath)) = dirPath

\* the trees of the model: every entry's parent directory is in the tree,
\* and every directory has a file somewhere beneath it
Trees ==
  { t \in SUBSET Slots :
      /\ \A e \in t : Len(e.path) > 1 =>
            \E p \in t : p.dir /\ p.path = Parent(e.path)
      /\ \A d \in t : d.dir => \E f \in t : ~f.dir /\ IsUnder(f.path, d.path)
      /\ Cardinality({e \in t : ~e.dir}) <= MaxFiles }

\* the faults a tree can have: an entry that cannot be opened (a directory
\* that cannot be listed, a file that cannot be read) or a file whose lazy
\* stat (DirEntry.Info) fails
Faults(t) ==
  { [kind |-> "noread", path |-> p] : p \in {<<>>} \cup {e.path : e \in t} }
  \cup
  { [kind |-> "nostat", path |-> p] : p \in {e.path : e \in {s \in t : ~s.dir}} }

FaultSets(t) == { F \in SUBSET Faults(t) : Cardinality(F) <= MaxFaults }

\* a file system: the root's lstat outcome, the tree below the root and its
\* faults
FileSystems ==
  UNION { { [rootName |-> rn, rootStat |-> "ok", entries |-> t,
             noread |-> {f.path : f \in {g \in F : g.kind = "noread"}},
             nostat |-> {f.path : f \in {g \in F : g.kind = "nostat"}}] :
            rn \in RootNames, F \in FaultSets(t) } : t \in Trees }
  \cup
  { [rootName |-> rn, rootStat |-> st, entries |-> {}, noread |-> {}, nostat |-> {}] :
      rn \in RootNames, st \in {"missing", "denied"} }

(***************************************************************************)
(* Filters of the directory walk.                                          *)
(***************************************************************************)
\* shouldExcludeDir with a loop that starts one entry too late
shouldExcludeDirOffByOne(dirName, excludeDirs) ==
  \E i \in DOMAIN excludeDirs : i > 1 /\ dirName = excludeDirs[i]

\* a directory is pruned when its basename equals an entry of the list
shouldExcludeDir(dirName, excludeDirs) ==
  \E i \in DOMAIN excludeDirs : dirName = excludeDirs[i]

\* shouldIncludeFile comparing the suffix without lower-casing
shouldIncludeFileCaseSensitive(path, includeExts) ==
  \/ Len(includeExts) = 0
  \/ \E i \in DOMAIN includeExts : HasSuffix(path, includeExts[i])

\* a file is kept when the allow-list is empty or the lower-cased path ends
\* with a lower-cased entry of the list
shouldIncludeFile(path, includeExts) ==
  \/ Len(includeExts) = 0
  \/ \E i \in DOMAIN includeExts : HasSuffix(ToLower(path), ToLower(includeExts[i]))

(***************************************************************************)
(* Classifier.                                                             *)
(***************************************************************************)
\* the extension-to-language table of detectLanguage
langMap ==
  {
    <<<<".", "g", "o">>, "go">>, <<<<".", "j", "s">>, "javascript">>,
    <<<<".", "t", "s">>, "typescript">>, <<<<".", "j", "s", "x">>, "jsx">>,
    <<<<".", "t", "s", "x">>, "tsx">>, <<<<".", "p", "y">>, "python">>,
    <<<<".", "j", "a", "v", "a">>, "java">>, <<<<".", "c", "p", "p">>, "cpp">>,
    <<<<".", "c">>, "c">>, <<<<".", "h">>, "c">>, <<<<".", "r", "s">>, "rust">>,
    <<<<".", "r", "b">>, "ruby">>, <<<<".", "p", "h", "p">>, "php">>,
    <<<<".", "c", "s", "s">>, "css">>, <<<<".", "h", "t", "m", "l">>, "html">>,
    <<<<".", "j", "s", "o", "n">>, "json">>, <<<<".", "m", "d">>, "markdown">>,
    <<<<".", "y", "m", "l">>, "yaml">>, <<<<".", "y", "a", "m", "l">>, "yaml">>,
    <<<<".", "t", "o", "m", "l">>, "toml">>, <<<<".", "x", "m", "l">>, "xml">>
  }

\* lang, exists := langMap[ext]
Lookup(table, key) ==
  IF \E m \in table : m[1] = key
  THEN (CHOOSE m \in table : m[1] = key)[2]
  ELSE ""

detectLanguage(path) == Lookup(langMap, ToLower(Ext(path)))

\* ".ps1" of the source's table holds a digit and is outside the alphabet
textExtensions ==
  {
    <<".", "t", "x", "t">>, <<".", "m", "d">>, <<".", "r", "s", "t">>,
    <<".", "a", "s", "c", "i", "i", "d", "o", "c">>, <<".", "g", "o">>, <<".", "p", "y">>,
    <<".", "j", "s">>, <<".", "t", "s">>, <<".", "j", "s", "x">>, <<".", "t", "s", "x">>,
    <<".", "j", "a", "v", "a">>, <<".", "c">>, <<".", "c", "p", "p">>, <<".", "c", "c">>,
    <<".", "c", "x", "x">>, <<".", "h">>, <<".", "h", "p", "p">>, <<".", "c", "s">>,
    <<".", "p", "h", "p">>, <<".", "r", "b">>, <<".", "r", "s">>, <<".", "s", "w", "i", "f", "t">>,
    <<".", "k", "t">>, <<".", "h", "t", "m", "l">>, <<".", "h", "t", "m">>, <<".", "x", "m", "l">>,
    <<".", "x", "h", "t", "m", "l">>, <<".", "c", "s", "s">>, <<".", "s", "c", "s", "s">>,
    <<".", "s", "a", "s", "s">>, <<".", "l", "e", "s", "s">>, <<".", "j", "s", "o", "n">>,
    <<".", "y", "a", "m", "l">>, <<".", "y", "m", "l">>, <<".", "t", "o", "m", "l">>,
    <<".", "i", "n", "i">>, <<".", "c", "f", "g">>, <<".", "c", "o", "n", "f">>, <<".", "s", "h">>,
    <<".", "b", "a", "s", "h">>, <<".", "z", "s", "h">>, <<".", "f", "i", "s", "h">>,
    <<".", "b", "a", "t">>, <<".", "c", "m", "d">>, <<".", "s", "q", "l">>,
    <<".", "g", "r", "a", "p", "h", "q", "l">>, <<".", "g", "q", "l">>,
    <<".", "d", "o", "c", "k", "e", "r", "f", "i", "l", "e">>,
    <<".", "g", "i", "t", "i", "g", "n", "o", "r", "e">>,
    <<".", "g", "i", "t", "a", "t", "t", "r", "i", "b", "u", "t", "e", "s">>,
    <<".", "m", "a", "k", "e", "f", "i", "l", "e">>, <<".", "c", "m", "a", "k", "e">>,
    <<".", "r">>, <<".", "r", "m", "d">>, <<".", "m">>, <<".", "s", "c", "a", "l", "a">>,
    <<".", "c", "l", "j">>, <<".", "h", "s">>, <<".", "v", "i", "m">>, <<".", "l", "u", "a">>,
    <<".", "p", "l">>, <<".", "t", "c", "l">>, <<".", "t", "e", "x">>, <<".", "b", "i", "b">>,
    <<".", "c", "l", "s">>, <<".", "s", "t", "y">>, <<".", "c", "s", "v">>, <<".", "t", "s", "v">>,
    <<".", "l", "o", "g">>
  }

isTextExtension(ext) == ext \in textExtensions

textFiles ==
  {
    <<"r", "e", "a", "d", "m", "e">>, <<"l", "i", "c", "e", "n", "s", "e">>,
    <<"c", "h", "a", "n", "g", "e", "l", "o", "g">>,
    <<"c", "o", "n", "t", "r", "i", "b", "u", "t", "i", "n", "g">>,
    <<"a", "u", "t", "h", "o", "r", "s">>,
    <<"c", "o", "n", "t", "r", "i", "b", "u", "t", "o", "r", "s">>,
    <<"c", "o", "p", "y", "i", "n", "g">>, <<"i", "n", "s", "t", "a", "l", "l">>,
    <<"n", "e", "w", "s">>, <<"t", "h", "a", "n", "k", "s">>, <<"t", "o", "d", "o">>,
    <<"v", "e", "r", "s", "i", "o", "n">>, <<"m", "a", "k", "e", "f", "i", "l", "e">>,
    <<"d", "o", "c", "k", "e", "r", "f", "i", "l", "e">>,
    <<"j", "e", "n", "k", "i", "n", "s", "f", "i", "l", "e">>,
    <<"g", "e", "m", "f", "i", "l", "e">>, <<"r", "a", "k", "e", "f", "i", "l", "e">>,
    <<"g", "u", "a", "r", "d", "f", "i", "l", "e">>, <<"p", "r", "o", "c", "f", "i", "l", "e">>,
    <<".", "g", "i", "t", "i", "g", "n", "o", "r", "e">>,
    <<".", "g", "i", "t", "a", "t", "t", "r", "i", "b", "u", "t", "e", "s">>,
    <<".", "d", "o", "c", "k", "e", "r", "i", "g", "n", "o", "r", "e">>,
    <<".", "e", "s", "l", "i", "n", "t", "r", "c">>,
    <<".", "p", "r", "e", "t", "t", "i", "e", "r", "r", "c">>,
    <<".", "b", "a", "b", "e", "l", "r", "c">>
  }

isTextFilename(fileName) == fileName \in textFiles

\* isTextFile without the file-name list
isTextFileByExtensionOnly(path, extension) == isTextExtension(ToLower(extension))

isTextFile(path, extension) ==
  \/ isTextExtension(ToLower(extension))
  \/ isTextFilename(ToLower(Base(path)))

\* strings.Contains
Contains(s, sub) ==
  \E i \in 1..(Len(s) - Len(sub) + 1) : SubSeq(s, i, i + Len(sub) - 1) = sub

\* the sample size of isTextContent
TextSampleSize == 8192
\* the sample size of detectFromPatterns
PatternSampleSize == 1024

Min(a, b) == IF a < b THEN a ELSE b

IsPrintable(c) == Ord[c] \in (32..126) \cup {13, 9}

\* content sniffing.  The loop that counts invalid bytes consumes the
\* sample, so the printable ratio that follows is taken over what is left
\* of it: nothing, and 0/0 is NaN, which is not >= 0.8.
PrintableRatio(rest) ==
  IF Len(rest) = 0 THEN FALSE
  ELSE Cardinality({i \in DOMAIN rest : IsPrintable(rest[i])}) * 10 >= Len(rest) * 8

TooManyInvalid(sample, invalid) ==
  /\ invalid # {}
  /\ Cardinality({i \in invalid : sample[i] = BAD}) * 10 > Len(sample)

isTextSample(sample, invalid) ==
  IF \E i \in DOMAIN sample : sample[i] = NUL THEN FALSE
  ELSE IF TooManyInvalid(sample, invalid) THEN FALSE
  ELSE PrintableRatio(IF invalid = {} THEN sample ELSE <<>>)

isTextSampleOf(sample) ==
  isTextSample(sample, {i \in DOMAIN sample : Ord[sample[i]] >= 128})

isTextContent(data) ==
  IF Len(data) = 0 THEN TRUE
  ELSE isTextSampleOf(SubSeq(data, 1, Min(Len(data), TextSampleSize)))

\* the shebang table of detectFromShebang
shebangPatterns ==
  { <<<<"p", "y", "t", "h", "o", "n">>, "python">>, <<<<"n", "o", "d", "e">>, "javascript">>, <<<<"r", "u", "b", "y">>, "ruby">>,
    <<<<"p", "e", "r", "l">>, "perl">>, <<<<"b", "a", "s", "h">>, "bash">>, <<<<"s", "h">>, "shell">>,
    <<<<"/", "b", "i", "n", "/", "s", "h">>, "shell">>, <<<<"/", "b", "i", "n", "/", "b", "a", "s", "h">>, "bash">>, <<<<"p", "h", "p">>, "php">> }

\* index of the first occurrence of character c in s, 0 when absent
FirstIndex(s, c) ==
  IF \E i \in DOMAIN s : s[i] = c
  THEN CHOOSE i \in DOMAIN s : s[i] = c /\ \A j \in DOMAIN s : s[j] = c => i <= j
  ELSE 0

\* the tags detectFromShebang can return: the table is a Go map, ranged over
\* in an unspecified order, and the first key found in the line wins
ShebangLine(content, idx) == IF idx > 0 THEN SubSeq(content, 1, idx) ELSE content

ShebangTags(hits) == IF hits = {} THEN {""} ELSE {m[2] : m \in hits}

ShebangHits(shebang) == {m \in shebangPatterns : Contains(shebang, m[1])}

detectFromShebang(content) ==
  IF Len(content) < 3 \/ SubSeq(content, 1, 2) # <<"#", "!">> THEN {""}
  ELSE ShebangTags(ShebangHits(
         ToLower(ShebangLine(content, FirstIndex(content, LF) - 1))))

\* the signature list of detectFromPatterns, in order
contentPatterns ==
  << <<<<"<", "?", "p", "h", "p">>, "php">>, <<<<"<", "?", "x", "m", "l">>, "xml">>, <<<<"<", "!", "d", "o", "c", "t", "y", "p", "e", " ", "h", "t", "m", "l">>, "html">>,
     <<<<"<", "h", "t", "m", "l">>, "html">>, <<<<"i", "m", "p", "o", "r", "t", " ", "r", "e", "a", "c", "t">>, "jsx">>, <<<<"f", "r", "o", "m", " ", "r", "e", "a", "c", "t">>, "jsx">>,
     <<<<"p", "a", "c", "k", "a", "g", "e", " ", "m", "a", "i", "n">>, "go">>, <<<<"#", "!", "/", "u", "s", "r", "/", "b", "i", "n", "/", "e", "n", "v", " ", "p", "y", "t", "h", "o", "n">>, "python">> >>

FirstPattern(patterns, hits) ==
  IF hits = {} THEN ""
  ELSE patterns[CHOOSE i \in hits : \A j \in hits : i <= j][2]

PatternHits(patterns, sample) ==
  FirstPattern(patterns, {i \in DOMAIN patterns : Contains(sample, patterns[i][1])})

detectFromPatterns(content) ==
  PatternHits(contentPatterns,
              ToLower(SubSeq(content, 1, Min(Len(content), PatternSampleSize))))

\* the tags detectLanguageFromContent can return
detectLanguageFromContent(path, content) ==
  {IF l # "" THEN l ELSE detectFromPatterns(content) : l \in detectFromShebang(content)}

(***************************************************************************)
(* Content transformer.  The regular expressions of the source are         *)
(* compiled without the multi-line flag: "$" matches at the end of the     *)
(* text only, and "." matches every character but the line feed.           *)
(***************************************************************************)
HasAt(s, i, sub) ==
  /\ i >= 1
  /\ i + Len(sub) - 1 <= Len(s)
  /\ SubSeq(s, i, i + Len(sub) - 1) = sub

\* ReplaceAllString(s, "") for the pattern  marker.*$
StripToEnd(s, marker) ==
  LET starts == {i \in DOMAIN s :
                   /\ HasAt(s, i, marker)
                   /\ \A j \in (i + Len(marker))..Len(s) : s[j] # LF}
  IN  IF starts = {} THEN s
      ELSE SubSeq(s, 1, (CHOOSE i \in starts : \A j \in starts : i <= j) - 1)

\* ReplaceAllString(s, "") for the pattern  open[\s\S]*?close
RECURSIVE RemoveSpans(_, _, _)
RemoveSpans(s, open, close) ==
  LET spans == {p \in (DOMAIN s) \X (DOMAIN s) :
                  /\ HasAt(s, p[1], open)
                  /\ p[2] >= p[1] + Len(open)
                  /\ HasAt(s, p[2], close)}
  IN  IF spans = {} THEN s
      ELSE
        LET i == CHOOSE i \in {p[1] : p \in spans} : \A p \in spans : i <= p[1]
            j == CHOOSE j \in {p[2] : p \in {q \in spans : q[1] = i}} :
                   \A p \in {q \in spans : q[1] = i} : j <= p[2]
        IN  SubSeq(s, 1, i - 1)
              \o RemoveSpans(SubSeq(s, j + Len(close), Len(s)), open, close)

stripComments(content, language) ==
  IF language \in {"go", "javascript", "typescript", "java", "cpp", "c", "rust", "php"}
  THEN RemoveSpans(StripToEnd(content, <<"/", "/">>), <<"/", "*">>, <<"*", "/">>)
  ELSE IF language \in {"python", "ruby"}
  THEN StripToEnd(content, <<"#">>)
  ELSE IF language \in {"html", "xml"}
  THEN RemoveSpans(content, <<"<", "!", "-", "-">>, <<"-", "-", ">">>)
  ELSE IF language = "css"
  THEN RemoveSpans(content, <<"/", "*">>, <<"*", "/">>)
  ELSE content

\* strings.Split(s, "\n")
RECURSIVE Split(_)
Split(s) ==
  LET i == FirstIndex(s, LF) IN
  IF i = 0 THEN <<s>>
  ELSE <<SubSeq(s, 1, i - 1)>> \o Split(SubSeq(s, i + 1, Len(s)))

IsSpace(c) == c \in {" ", TAB, LF}

\* strings.TrimSpace(line) != ""
NonBlank(line) == \E i \in DOMAIN line : ~IsSpace(line[i])

\* the lines kept by the loop of stripEmptyLines, in order
RECURSIVE nonEmptyLines(_)
nonEmptyLines(lines) ==
  IF lines = <<>> THEN <<>>
  ELSE IF NonBlank(lines[1]) THEN <<lines[1]>> \o nonEmptyLines(Tail(lines))
  ELSE nonEmptyLines(Tail(lines))

stripEmptyLines(content) == Join(nonEmptyLines(Split(content)), <<LF>>)

\* the text with its leading and trailing white space removed
RECURSIVE Trim(_)
Trim(s) ==
  IF s = <<>> THEN s
  ELSE IF IsSpace(s[1]) THEN Trim(Tail(s))
  ELSE IF IsSpace(s[Len(s)]) THEN Trim(SubSeq(s, 1, Len(s) - 1))
  ELSE s

\* json.Unmarshal followed by json.Marshal, for the JSON documents the
\* alphabet can spell (arrays nested in arrays); <<>> when parsing fails
RECURSIVE jsonMinify(_)
jsonMinify(s) ==
  LET t == Trim(s) IN
  IF Len(t) < 2 \/ t[1] # "[" \/ t[Len(t)] # "]" THEN <<>>
  ELSE
    LET inner == Trim(SubSeq(t, 2, Len(t) - 1)) IN
    IF inner = <<>> THEN <<"[", "]">>
    ELSE IF jsonMinify(inner) = <<>> THEN <<>>
    ELSE <<"[">> \o jsonMinify(inner) \o <<"]">>

\* ReplaceAllString(s, " ") for the pattern  [ \t]+
RECURSIVE CollapseBlanks(_)
CollapseBlanks(s) ==
  IF s = <<>> THEN s
  ELSE IF s[1] \in {" ", TAB}
  THEN IF Len(s) > 1 /\ s[2] \in {" ", TAB}
       THEN CollapseBlanks(Tail(s))
       ELSE <<" ">> \o CollapseBlanks(Tail(s))
  ELSE <<s[1]>> \o CollapseBlanks(Tail(s))

\* ReplaceAllString(s, "") for the pattern  [ \t]+$
RECURSIVE StripTrailingBlanks(_)
StripTrailingBlanks(s) ==
  IF s # <<>> /\ s[Len(s)] \in {" ", TAB}
  THEN StripTrailingBlanks(SubSeq(s, 1, Len(s) - 1))
  ELSE s

compressWhitespace(content, language) ==
  IF language = "json" /\ jsonMinify(content) # <<>>
  THEN jsonMinify(content)
  ELSE IF language \in {"javascript", "css"}
  THEN StripTrailingBlanks(CollapseBlanks(content))
  ELSE StripTrailingBlanks(content)

RemoveCommentsStep(content, language, o) ==
  IF o.RemoveComments THEN stripComments(content, language) ELSE content

RemoveEmptyLinesStep(content, o) ==
  IF o.RemoveEmptyLines THEN stripEmptyLines(content) ELSE content

CompressCodeStep(content, language, o) ==
  IF o.CompressCode THEN compressWhitespace(content, language) ELSE content

\* processFileContent with the first two stages exchanged
processFileContentEmptyLinesFirst(content, language, o) ==
  CompressCodeStep(
    RemoveCommentsStep(RemoveEmptyLinesStep(content, o), language, o),
    language, o)

processFileContent(content, language, o) ==
  CompressCodeStep(
    RemoveEmptyLinesStep(RemoveCommentsStep(content, language, o), o),
    language, o)

\* CountLines counting the line feeds only
CountLinesFeedsOnly(content) ==
  Cardinality({i \in DOMAIN content : content[i] = LF})

\* utils.CountLines
CountLines(content) ==
  IF content = <<>> THEN 0
  ELSE LET lines == 1 + Cardinality({i \in DOMAIN content : content[i] = LF})
       IN  IF HasSuffix(content, <<LF>>) THEN lines - 1 ELSE lines

\* utils.GetRelativePath(root, path) for an entry below the root, given by
\* its path components; the root itself is "."
GetRelativePath(rel) == IF rel = <<>> THEN <<".">> ELSE Join(rel, <<"/">>)

(***************************************************************************)
(* State.                                                                  *)
(***************************************************************************)
VARIABLES
  fs,             \* the file system under the root (never changes)
  opts,           \* ScanOptions
  treeWriter,     \* StreamingScanner.treeWriter is set
  pc,             \* position of the single thread of control
  todo,           \* filepath.WalkDir: the entries still to visit, in order
  walkErr,        \* filepath.WalkDir: the error a callback returned
  stats,          \* StreamingScanner.stats
  errors,         \* StreamingScanner.errors
  filePaths,      \* StreamingScanner.filePaths
  ret,            \* what StreamingScanner.Scan returned
  calls,          \* the calls made on the emission sink, in order
  result,         \* AnalysisScanner.Scan: the ScanResult being built
  aerrors,        \* AnalysisScanner.errors
  totalFiles,     \* AnalysisScanner.Scan: total of the counting pre-pass
  processedFiles, \* AnalysisScanner.Scan: files processed by the second pass
  aret,           \* what AnalysisScanner.Scan returned
  progress,       \* the last ScanProgress handed to the progress callback
  xform,          \* processFileContent: the content being transformed
  scanStart       \* per call of StreamingScanner.Scan on the instance: the
                  \* number of per-file callback calls made before it

vars ==
  << fs, opts, treeWriter, pc, todo, walkErr, stats, errors, filePaths, ret,
     calls, result, aerrors, totalFiles, processedFiles, aret, progress, xform,
     scanStart >>

streamVars == << treeWriter, stats, errors, filePaths, ret, calls >>
batchVars == << result, aerrors, totalFiles, processedFiles, aret >>

\* the nil error
NoError == [kind |-> "nil", path |-> <<>>]

\* the option sets of the model
ExcludeChoices == { <<>>, << <<"b">> >>, << <<"B">>, <<"a", "/", "b">> >> }
IncludeChoices == { <<>>, << <<".", "g", "o">> >> }

OptionSets ==
  { [IncludeDirectoryTree |-> t, IncludeContent |-> c,
     ExcludeDirs |-> x, IncludeExts |-> i,
     RemoveComments |-> p, RemoveEmptyLines |-> p, CompressCode |-> p] :
      t \in BOOLEAN, c \in BOOLEAN, x \in ExcludeChoices, i \in IncludeChoices,
      p \in BOOLEAN }

\* NewStreamingScanner
NewStats ==
  [TotalFiles |-> 0, TotalSize |-> 0, TextFiles |-> 0, BinaryFiles |-> 0,
   LanguageCounts |-> <<>>]

\* the ScanResult literal at the head of AnalysisScanner.Scan
NewResult ==
  [Files |-> <<>>, TotalFiles |-> 0, TotalSize |-> 0, TextFiles |-> 0,
   BinaryFiles |-> 0, LanguageCounts |-> <<>>]

NoReturn == [returned |-> FALSE, hasStats |-> FALSE, stats |-> NewStats, err |-> NoError]
NoResult == [returned |-> FALSE, result |-> NewResult, err |-> NoError]
NoProgress == [Phase |-> "", CurrentFile |-> <<>>, ProcessedFiles |-> 0,
               TotalFiles |-> 0, BytesProcessed |-> 0]

\* no content is handed to the transformer while a scan is being modelled
NoFlags == [RemoveComments |-> FALSE, RemoveEmptyLines |-> FALSE, CompressCode |-> FALSE]

NoTransform ==
  [stage |-> "off", content |-> <<>>, language |-> "", once |-> <<>>, twice |-> <<>>,
   flags |-> NoFlags, processed |-> <<>>, isText |-> FALSE]

Init ==
  /\ fs \in FileSystems
  /\ opts \in {o \in OptionSets : o.RemoveComments => o.IncludeContent}
  /\ treeWriter \in {w \in BOOLEAN : ~opts.IncludeDirectoryTree => w}
  /\ pc = "idle"
  /\ todo = <<>>
  /\ walkErr = NoError
  /\ stats = NewStats
  /\ errors = <<>>
  /\ filePaths = <<>>
  /\ ret = NoReturn
  /\ calls = <<>>
  /\ result = NewResult
  /\ aerrors = <<>>
  /\ totalFiles = 0
  /\ processedFiles = 0
  /\ aret = NoResult
  /\ progress = NoProgress
  /\ xform = NoTransform
  /\ scanStart = <<0>>

(***************************************************************************)
(* filepath.WalkDir.                                                       *)
(***************************************************************************)
\* the DirEntry of an entry; the root is a directory
EntryOf(rel) ==
  IF rel = <<>> THEN [path |-> <<>>, dir |-> TRUE, content |-> <<>>]
  ELSE CHOOSE e \in fs.entries : e.path = rel

\* d.Name() with a root that has no name
NameOfBelowRoot(rel) == IF rel = <<>> THEN <<>> ELSE rel[Len(rel)]

\* d.Name()
NameOf(rel) == IF rel = <<>> THEN fs.rootName ELSE rel[Len(rel)]

\* the path handed to the callback: filepath.Join(root, components...)
FullPath(rel) == Join(<<fs.rootName>> \o rel, <<"/">>)

\* the first visit of WalkDir: the root, with the error of a failed Lstat
RootItem == [path |-> <<>>, err |-> fs.rootStat # "ok"]

\* the paths of S in the order of their last component (os.ReadDir sorts
\* the entries of a directory by file name)
RECURSIVE SortByName(_)
SortByName(S) ==
  IF S = {} THEN <<>>
  ELSE LET first == CHOOSE p \in S :
                      \A q \in S \ {p} : StrLess(p[Len(p)], q[Len(q)])
       IN  <<first>> \o SortByName(S \ {first})

\* os.ReadDir of a directory that can be listed, as visits to make
Visits(sorted) == [i \in DOMAIN sorted |-> [path |-> sorted[i], err |-> FALSE]]

ReadDir(rel) ==
  Visits(SortByName({e.path : e \in {c \in fs.entries :
                        Len(c.path) = Len(rel) + 1 /\ Parent(c.path) = rel}}))

\* drop the visits to the remaining entries of the directory dirPath
RECURSIVE SkipSiblings(_, _)
SkipSiblings(items, dirPath) ==
  IF items # <<>> /\ Len(items[1].path) = Len(dirPath) + 1
      /\ Parent(items[1].path) = dirPath
  THEN SkipSiblings(Tail(items), dirPath)
  ELSE items

\* the visits left after the callback returned r ("nil", "SkipDir" or "err")
\* for the visit at the head of items
WalkNext(items, r) ==
  LET it == Head(items)
      rest == Tail(items)
  IN  IF r = "err" THEN <<>>
      ELSE IF it.err THEN rest
      ELSE IF EntryOf(it.path).dir
      THEN IF r = "SkipDir" THEN rest
           ELSE IF it.path \in fs.noread
           THEN <<[path |-> it.path, err |-> TRUE]>> \o rest
           ELSE ReadDir(it.path) \o rest
      ELSE IF r = "SkipDir" THEN SkipSiblings(rest, Parent(it.path))
      ELSE rest

(***************************************************************************)
(* Command line: runScan / runDoc validate the path before scanning.       *)
(***************************************************************************)
\* os.Stat failed with an error for which os.IsNotExist holds
PathDoesNotExist == fs.rootStat = "missing"

RunCommand ==
  /\ pc = "idle"
  /\ pc' = IF PathDoesNotExist THEN "exit" ELSE "ready"
  /\ UNCHANGED << fs, opts, xform, scanStart, todo, walkErr, streamVars, batchVars, progress >>

(***************************************************************************)
(* StreamingScanner.                                                       *)
(***************************************************************************)
ScanError(path, phase, err, skipped) ==
  [Path |-> path, Phase |-> phase, Error |-> err, Skipped |-> skipped]

\* recordError marking every error as skipped, as AnalysisScanner's does
recordErrorAlwaysSkipped(errs, path, phase, err, skipped) ==
  Append(errs, ScanError(path, phase, err, TRUE))

recordError(errs, path, phase, err, skipped) ==
  Append(errs, ScanError(path, phase, err, skipped))

\* StreamingScanner.reportProgress
reportProgress(phase, currentFile) ==
  [Phase |-> phase, CurrentFile |-> currentFile,
   ProcessedFiles |-> stats.TotalFiles, TotalFiles |-> Len(filePaths),
   BytesProcessed |-> stats.TotalSize]

\* the FileInfo literal of processFile, before any content is read
FileInfoLiteral(path, relativePath, size, extension) ==
  [Path |-> path,
   RelativePath |-> relativePath,
   Size |-> size,
   Language |-> detectLanguage(path),
   Extension |-> extension,
   IsText |-> isTextFile(path, extension),
   Content |-> <<>>,
   LineCount |-> 0]

NewFileInfo(rel) ==
  FileInfoLiteral(FullPath(rel), GetRelativePath(rel), Len(EntryOf(rel).content),
                  Ext(FullPath(rel)))

\* the read guarded by the classification alone, whatever IncludeContent is
WantsContentAlways(fileInfo, o) == fileInfo.IsText

\* content is read only for a file the fast path classified as text
WantsContent(fileInfo, o) == o.IncludeContent /\ fileInfo.IsText

\* the tags content-based detection can give the file
ContentLanguages(rel) == detectLanguageFromContent(FullPath(rel), EntryOf(rel).content)

\* the else-branch of the read in processFile: os.ReadFile succeeded;
\* contentLang is the tag content-based detection returns
WithProcessed(fileInfo, language, isText, processedContent) ==
  [fileInfo EXCEPT !.Language = language,
                   !.IsText = isText,
                   !.Content = processedContent,
                   !.LineCount = CountLines(processedContent)]

WithLanguage(fileInfo, content, language, o) ==
  WithProcessed(fileInfo, language,
                IF ~fileInfo.IsText /\ isTextContent(content) THEN TRUE
                ELSE fileInfo.IsText,
                processFileContent(content, language, o))

\* WithContent letting the content override the extension
WithContentOverriding(fileInfo, content, contentLang, o) ==
  WithLanguage(fileInfo, content,
               IF contentLang # "" THEN contentLang ELSE fileInfo.Language, o)

WithContent(fileInfo, content, contentLang, o) ==
  WithLanguage(fileInfo, content,
               IF fileInfo.Language = "" THEN contentLang ELSE fileInfo.Language, o)

\* LanguageCounts[language]++
IncLanguage(counts, language) ==
  IF language \in DOMAIN counts
  THEN [counts EXCEPT ![language] = @ + 1]
  ELSE counts @@ (language :> 1)

\* UpdateStats without the else-branch that counts a binary file
UpdateStatsTextOnly(st, fileInfo) ==
  [TotalFiles |-> st.TotalFiles + 1,
   TotalSize |-> st.TotalSize + fileInfo.Size,
   TextFiles |-> IF fileInfo.IsText THEN st.TextFiles + 1 ELSE st.TextFiles,
   BinaryFiles |-> st.BinaryFiles,
   LanguageCounts |-> IF fileInfo.Language # ""
                      THEN IncLanguage(st.LanguageCounts, fileInfo.Language)
                      ELSE st.LanguageCounts]

\* UpdateStats adding the length of the record's content instead of the
\* size reported by the file system
UpdateStatsContentSize(st, fileInfo) ==
  [TotalFiles |-> st.TotalFiles + 1,
   TotalSize |-> st.TotalSize + Len(fileInfo.Content),
   TextFiles |-> IF fileInfo.IsText THEN st.TextFiles + 1 ELSE st.TextFiles,
   BinaryFiles |-> IF fileInfo.IsText THEN st.BinaryFiles ELSE st.BinaryFiles + 1,
   LanguageCounts |-> IF fileInfo.Language # ""
                      THEN IncLanguage(st.LanguageCounts, fileInfo.Language)
                      ELSE st.LanguageCounts]

\* the "Update statistics" block of processFile
UpdateStats(st, fileInfo) ==
  [TotalFiles |-> st.TotalFiles + 1,
   TotalSize |-> st.TotalSize + fileInfo.Size,
   TextFiles |-> IF fileInfo.IsText THEN st.TextFiles + 1 ELSE st.TextFiles,
   BinaryFiles |-> IF fileInfo.IsText THEN st.BinaryFiles ELSE st.BinaryFiles + 1,
   LanguageCounts |-> IF fileInfo.Language # ""
                      THEN IncLanguage(st.LanguageCounts, fileInfo.Language)
                      ELSE st.LanguageCounts]

\* a call on the emission sink and whether it succeeded
SinkCall(op, arg, ok) == [op |-> op, arg |-> arg, ok |-> ok]

\* the end of processFile: statistics, callback, returned error
Deliver(path, fileInfo, errs, handlerOk) ==
  [stats |-> UpdateStats(stats, fileInfo),
   errors |-> IF handlerOk THEN errs
              ELSE recordError(errs, path, "write", "write", FALSE),
   calls |-> Append(calls, SinkCall("file", fileInfo, handlerOk)),
   err |-> IF handlerOk THEN NoError
           ELSE [kind |-> "error writing file", path |-> path]]

\* processFile returning before the statistics and the callback
GiveUp(path, phase) ==
  [stats |-> stats,
   errors |-> recordError(errors, path, phase, phase, TRUE),
   calls |-> calls,
   err |-> [kind |-> phase, path |-> path]]

\* the "Read and process content if requested" block and what follows it
ReadAndDeliver(path, rel, info, contentLang, handlerOk) ==
  IF ~WantsContent(info, opts) THEN Deliver(path, info, errors, handlerOk)
  ELSE IF rel \in fs.noread
  THEN Deliver(path, info, recordError(errors, path, "read", "read", TRUE), handlerOk)
  ELSE Deliver(path, WithContent(info, EntryOf(rel).content, contentLang, opts),
               errors, handlerOk)

\* ReadAndDeliver giving up on a file whose read failed
ReadOrGiveUp(path, rel, info, contentLang, handlerOk) ==
  IF ~WantsContent(info, opts) THEN Deliver(path, info, errors, handlerOk)
  ELSE IF rel \in fs.noread THEN GiveUp(path, "read")
  ELSE Deliver(path, WithContent(info, EntryOf(rel).content, contentLang, opts),
               errors, handlerOk)

\* processFile giving up on a file whose read failed: the error is recorded
\* and returned, and the file is neither counted nor handed to the callback
processFileSkipUnreadable(rel, contentLang, handlerOk) ==
  IF rel \in fs.nostat THEN GiveUp(FullPath(rel), "stat")
  ELSE ReadOrGiveUp(FullPath(rel), rel, NewFileInfo(rel), contentLang, handlerOk)

\* StreamingScanner.processFile on the file rel, where contentLang is the
\* tag content-based detection returns and handlerOk tells whether the
\* per-file callback succeeds: the new stats, errors and sink calls, and
\* the error processFile returns
processFile(rel, contentLang, handlerOk) ==
  IF rel \in fs.nostat THEN GiveUp(FullPath(rel), "stat")
  ELSE ReadAndDeliver(FullPath(rel), rel, NewFileInfo(rel), contentLang, handlerOk)

\* what the walk callback of collectPaths does for one visit
collectPathsResult(it) ==
  IF it.err THEN "nil"
  ELSE IF EntryOf(it.path).dir /\ shouldExcludeDir(NameOf(it.path), opts.ExcludeDirs)
  THEN "SkipDir"
  ELSE "nil"

\* collectPathsAdds without the allow-list test
collectPathsAddsUnfiltered(it) ==
  /\ ~it.err
  /\ ~EntryOf(it.path).dir

collectPathsAdds(it) ==
  /\ ~it.err
  /\ ~EntryOf(it.path).dir
  /\ shouldIncludeFile(FullPath(it.path), opts.IncludeExts)

\* the first traversal run whether or not a directory tree is requested
NeedsTreeAlways(o) == TRUE

\* the first traversal runs only when a directory tree is requested
NeedsTree(o) == o.IncludeDirectoryTree

\* Scan up to the first traversal
ScanBegin ==
  /\ pc = "begin"
  /\ todo' = <<RootItem>>
  /\ walkErr' = NoError
  /\ IF NeedsTree(opts)
     THEN /\ pc' = "collect"
          /\ progress' = reportProgress("collecting", <<".", ".", ".">>)
     ELSE /\ pc' = "walk"
          /\ progress' = reportProgress("scanning", <<".", ".", ".">>)
  /\ UNCHANGED << fs, opts, xform, scanStart, streamVars, batchVars >>

\* one call of the walk callback of collectPaths
CollectPathsCallback ==
  /\ pc = "collect"
  /\ todo # <<>>
  /\ LET it == Head(todo) IN
       /\ filePaths' = IF collectPathsAdds(it)
                       THEN Append(filePaths, GetRelativePath(it.path))
                       ELSE filePaths
       /\ todo' = WalkNext(todo, collectPathsResult(it))
  /\ UNCHANGED << fs, opts, xform, scanStart, treeWriter, pc, walkErr, stats, errors, ret, calls,
                  batchVars, progress >>

\* ScanWriteTree going on to the second traversal whatever the tree writer
\* returned
ScanWriteTreeContinues ==
  /\ pc = "collect"
  /\ todo = <<>>
  /\ \E ok \in BOOLEAN :
       /\ treeWriter \/ ok
       /\ calls' = IF treeWriter THEN Append(calls, SinkCall("tree", filePaths, ok))
                   ELSE calls
  /\ pc' = "walk"
  /\ todo' = <<RootItem>>
  /\ progress' = reportProgress("scanning", <<".", ".", ".">>)
  /\ UNCHANGED << fs, opts, xform, scanStart, treeWriter, walkErr, stats, errors,
                  filePaths, ret, batchVars >>

\* collectPaths returned: the tree is written, then the second traversal
\* starts
ScanWriteTree ==
  /\ pc = "collect"
  /\ todo = <<>>
  /\ \E ok \in BOOLEAN :
       IF ~treeWriter
       THEN /\ ok
            /\ pc' = "walk"
            /\ todo' = <<RootItem>>
            /\ progress' = reportProgress("scanning", <<".", ".", ".">>)
            /\ UNCHANGED << calls, ret >>
       ELSE /\ calls' = Append(calls, SinkCall("tree", filePaths, ok))
            /\ IF ok
               THEN /\ pc' = "walk"
                    /\ todo' = <<RootItem>>
                    /\ progress' = reportProgress("scanning", <<".", ".", ".">>)
                    /\ UNCHANGED ret
               ELSE /\ pc' = "returned"
                    /\ ret' = [returned |-> TRUE, hasStats |-> FALSE, stats |-> NewStats,
                               err |-> [kind |-> "failed to write tree", path |-> <<>>]]
                    /\ progress' = reportProgress("tree", <<".", ".", ".">>)
                    /\ UNCHANGED todo
  /\ UNCHANGED << fs, opts, xform, scanStart, treeWriter, walkErr, stats, errors, filePaths, batchVars >>

\* what the walk callback of Scan returns when processFile returned err
ScanOnProcessError(err) == "nil"

\* one call of the walk callback of Scan's second traversal
\* the walk callback of Scan after processFile returned out
ScanProcessed(out) ==
  /\ stats' = out.stats
  /\ errors' = out.errors
  /\ calls' = out.calls
  /\ todo' = WalkNext(todo, IF out.err = NoError THEN "nil"
                            ELSE ScanOnProcessError(out.err))
  /\ walkErr' = IF out.err # NoError /\ ScanOnProcessError(out.err) = "err"
                THEN out.err ELSE walkErr

ScanCallback ==
  /\ pc = "walk"
  /\ todo # <<>>
  /\ LET it == Head(todo) IN
       IF it.err
       THEN /\ errors' = recordError(errors, FullPath(it.path), "scan", "walk", TRUE)
            /\ todo' = WalkNext(todo, "nil")
            /\ UNCHANGED << stats, calls, walkErr, progress >>
       ELSE IF EntryOf(it.path).dir
       THEN /\ todo' = WalkNext(todo,
                         IF shouldExcludeDir(NameOf(it.path), opts.ExcludeDirs)
                         THEN "SkipDir" ELSE "nil")
            /\ UNCHANGED << stats, errors, calls, walkErr, progress >>
       ELSE IF ~shouldIncludeFile(FullPath(it.path), opts.IncludeExts)
       THEN /\ todo' = WalkNext(todo, "nil")
            /\ UNCHANGED << stats, errors, calls, walkErr, progress >>
       ELSE \E handlerOk \in BOOLEAN, contentLang \in ContentLanguages(it.path) :
              /\ ScanProcessed(processFile(it.path, contentLang, handlerOk))
              /\ progress' = IF it.path \in fs.nostat THEN progress
                             ELSE reportProgress("scanning", GetRelativePath(it.path))
  /\ UNCHANGED << fs, opts, xform, scanStart, treeWriter, pc, filePaths, ret, batchVars >>

\* the second traversal is over: Scan returns the stats and WalkDir's error
ScanReturn ==
  /\ pc = "walk"
  /\ todo = <<>>
  /\ ret' = [returned |-> TRUE, hasStats |-> TRUE, stats |-> stats, err |-> walkErr]
  /\ pc' = "returned"
  /\ UNCHANGED << fs, opts, xform, scanStart, treeWriter, todo, walkErr, stats, errors, filePaths,
                  calls, batchVars, progress >>

(***************************************************************************)
(* The caller of the streaming scan: header, scan, footer, close.          *)
(***************************************************************************)
WriteHeader ==
  /\ pc = "ready"
  /\ calls' = Append(calls, SinkCall("header", <<>>, TRUE))
  /\ pc' = "begin"
  /\ UNCHANGED << fs, opts, xform, scanStart, treeWriter, todo, walkErr, stats, errors, filePaths,
                  ret, batchVars, progress >>

WriteFooter ==
  /\ pc = "returned"
  /\ ret.err = NoError
  /\ calls' = Append(calls, SinkCall("footer", ret.stats, TRUE))
  /\ pc' = "footer"
  /\ UNCHANGED << fs, opts, xform, scanStart, treeWriter, todo, walkErr, stats, errors, filePaths,
                  ret, batchVars, progress >>

Close ==
  /\ \/ pc = "footer"
     \/ pc = "returned" /\ ret.err # NoError
  /\ calls' = Append(calls, SinkCall("close", <<>>, TRUE))
  /\ pc' = "closed"
  /\ UNCHANGED << fs, opts, xform, scanStart, treeWriter, todo, walkErr, stats, errors, filePaths,
                  ret, batchVars, progress >>

(***************************************************************************)
(* AnalysisScanner (two-pass version with progress and error tracking).    *)
(***************************************************************************)
\* AnalysisScanner.recordError: every recorded error is marked skipped
analysisRecordError(errs, path, phase, err) ==
  Append(errs, ScanError(path, phase, err, TRUE))

\* AnalysisScanner.reportProgress
analysisReportProgress(phase, currentFile, processed, total) ==
  [Phase |-> phase, CurrentFile |-> currentFile, ProcessedFiles |-> processed,
   TotalFiles |-> total, BytesProcessed |-> 0]

\* the append and the counters that follow it in the walk callback
AppendFile(res, fileInfo) ==
  [Files |-> Append(res.Files, fileInfo),
   TotalFiles |-> res.TotalFiles + 1,
   TotalSize |-> res.TotalSize + fileInfo.Size,
   TextFiles |-> IF fileInfo.IsText THEN res.TextFiles + 1 ELSE res.TextFiles,
   BinaryFiles |-> IF fileInfo.IsText THEN res.BinaryFiles ELSE res.BinaryFiles + 1,
   LanguageCounts |-> IF fileInfo.Language # ""
                      THEN IncLanguage(res.LanguageCounts, fileInfo.Language)
                      ELSE res.LanguageCounts]

\* the files returned in the order the traversal appended them
SortFilesNone(files) == files

\* sort.Slice(result.Files, by RelativePath)
RECURSIVE SortFiles(_)
SortFiles(files) ==
  IF files = <<>> THEN <<>>
  ELSE LET i == CHOOSE i \in DOMAIN files :
                  \A j \in DOMAIN files :
                     ~StrLess(files[j].RelativePath, files[i].RelativePath)
       IN  <<files[i]>> \o
           SortFiles(SubSeq(files, 1, i - 1) \o SubSeq(files, i + 1, Len(files)))

\* what the callback of the counting pre-pass returns for one visit: the
\* exclusion test sits inside the branch taken for files only
analysisCountResult(it) ==
  IF it.err THEN "nil"
  ELSE IF ~EntryOf(it.path).dir
          /\ shouldIncludeFile(FullPath(it.path), opts.IncludeExts)
          /\ EntryOf(it.path).dir
          /\ shouldExcludeDir(NameOf(it.path), opts.ExcludeDirs)
  THEN "SkipDir"
  ELSE "nil"

analysisCounts(it) ==
  /\ ~it.err
  /\ ~EntryOf(it.path).dir
  /\ shouldIncludeFile(FullPath(it.path), opts.IncludeExts)

AnalysisBegin ==
  /\ pc = "ready"
  /\ result' = NewResult
  /\ totalFiles' = 0
  /\ progress' = analysisReportProgress("counting", <<".", ".", ".">>, 0, 0)
  /\ todo' = <<RootItem>>
  /\ walkErr' = NoError
  /\ pc' = "a_count"
  /\ UNCHANGED << fs, opts, xform, scanStart, streamVars, aerrors, processedFiles, aret >>

\* one call of the walk callback of the counting pre-pass
AnalysisCountCallback ==
  /\ pc = "a_count"
  /\ todo # <<>>
  /\ LET it == Head(todo) IN
       /\ totalFiles' = IF analysisCounts(it) THEN totalFiles + 1 ELSE totalFiles
       /\ todo' = WalkNext(todo, analysisCountResult(it))
  /\ UNCHANGED << fs, opts, xform, scanStart, pc, walkErr, streamVars, result, aerrors,
                  processedFiles, aret, progress >>

\* the pre-pass is over (its error is dropped): the second pass starts
AnalysisCountDone ==
  /\ pc = "a_count"
  /\ todo = <<>>
  /\ processedFiles' = 0
  /\ todo' = <<RootItem>>
  /\ pc' = "a_walk"
  /\ UNCHANGED << fs, opts, xform, scanStart, walkErr, streamVars, result, aerrors, totalFiles,
                  aret, progress >>

\* the file branch of the second pass's callback on the file rel
analysisAppend(fileInfo, errs) ==
  [result |-> AppendFile(result, fileInfo),
   processed |-> processedFiles + 1,
   errors |-> errs]

analysisRead(path, rel, info, contentLang) ==
  IF ~WantsContent(info, opts) THEN analysisAppend(info, aerrors)
  ELSE IF rel \in fs.noread
  THEN analysisAppend(info, analysisRecordError(aerrors, path, "read", "read"))
  ELSE analysisAppend(WithContent(info, EntryOf(rel).content, contentLang, opts),
                      aerrors)

analysisFile(rel, contentLang) ==
  IF rel \in fs.nostat
  THEN [result |-> result, processed |-> processedFiles,
        errors |-> analysisRecordError(aerrors, FullPath(rel), "stat", "stat")]
  ELSE analysisRead(FullPath(rel), rel, NewFileInfo(rel), contentLang)

\* the walk callback of the second pass after the file was handled
AnalysisProcessed(out) ==
  /\ result' = out.result
  /\ aerrors' = out.errors
  /\ processedFiles' = out.processed

\* one call of the walk callback of the second pass
AnalysisScanCallback ==
  /\ pc = "a_walk"
  /\ todo # <<>>
  /\ LET it == Head(todo) IN
       IF it.err
       THEN /\ aerrors' = analysisRecordError(aerrors, FullPath(it.path), "scan", "walk")
            /\ todo' = WalkNext(todo, "nil")
            /\ UNCHANGED << result, processedFiles, progress >>
       ELSE IF EntryOf(it.path).dir
       THEN /\ todo' = WalkNext(todo,
                         IF shouldExcludeDir(NameOf(it.path), opts.ExcludeDirs)
                         THEN "SkipDir" ELSE "nil")
            /\ UNCHANGED << result, aerrors, processedFiles, progress >>
       ELSE IF ~shouldIncludeFile(FullPath(it.path), opts.IncludeExts)
       THEN /\ todo' = WalkNext(todo, "nil")
            /\ UNCHANGED << result, aerrors, processedFiles, progress >>
       ELSE \E contentLang \in ContentLanguages(it.path) :
                /\ AnalysisProcessed(analysisFile(it.path, contentLang))
                /\ progress' = analysisReportProgress("scanning",
                                  GetRelativePath(it.path), processedFiles, totalFiles)
                /\ todo' = WalkNext(todo, "nil")
  /\ UNCHANGED << fs, opts, xform, scanStart, pc, walkErr, streamVars, totalFiles, aret >>

\* the second pass is over: the files are sorted and the result returned
AnalysisReturn ==
  /\ pc = "a_walk"
  /\ todo = <<>>
  /\ progress' = analysisReportProgress("sorting", <<".", ".", ".">>, totalFiles, totalFiles)
  /\ result' = [result EXCEPT !.Files = SortFiles(result.Files)]
  /\ aret' = [returned |-> TRUE, result |-> result', err |-> walkErr]
  /\ pc' = "a_done"
  /\ UNCHANGED << fs, opts, xform, scanStart, todo, walkErr, streamVars, aerrors, totalFiles,
                  processedFiles >>

(***************************************************************************)
(* AnalysisScanner (single-pass version of scanner/analysis.go).           *)
(***************************************************************************)
LegacyBegin ==
  /\ pc = "ready"
  /\ result' = NewResult
  /\ todo' = <<RootItem>>
  /\ walkErr' = NoError
  /\ pc' = "l_walk"
  /\ UNCHANGED << fs, opts, xform, scanStart, streamVars, aerrors, totalFiles, processedFiles,
                  aret, progress >>

\* the file branch of the callback on a file whose stat succeeds
legacyRead(rel, info) ==
  IF WantsContent(info, opts) /\ rel \notin fs.noread
  THEN WithProcessed(info, info.Language, info.IsText,
                     processFileContent(EntryOf(rel).content, info.Language, opts))
  ELSE info

legacyFile(rel) == AppendFile(result, legacyRead(rel, NewFileInfo(rel)))

\* what the callback returns for one visit
legacyResult(it) ==
  IF it.err THEN "err"
  ELSE IF EntryOf(it.path).dir
  THEN IF shouldExcludeDir(NameOf(it.path), opts.ExcludeDirs) THEN "SkipDir" ELSE "nil"
  ELSE IF shouldIncludeFile(FullPath(it.path), opts.IncludeExts) /\ it.path \in fs.nostat
  THEN "err"
  ELSE "nil"

\* one call of the walk callback
LegacyScanCallback ==
  /\ pc = "l_walk"
  /\ todo # <<>>
  /\ LET it == Head(todo)
         r == legacyResult(it)
     IN  /\ result' = IF /\ r = "nil"
                         /\ ~it.err
                         /\ ~EntryOf(it.path).dir
                         /\ shouldIncludeFile(FullPath(it.path), opts.IncludeExts)
                      THEN legacyFile(it.path)
                      ELSE result
         /\ todo' = WalkNext(todo, r)
         /\ walkErr' = IF r = "err"
                       THEN [kind |-> IF it.err THEN "walk" ELSE "stat",
                             path |-> FullPath(it.path)]
                       ELSE walkErr
  /\ UNCHANGED << fs, opts, xform, scanStart, pc, streamVars, aerrors, totalFiles, processedFiles,
                  aret, progress >>

LegacyReturn ==
  /\ pc = "l_walk"
  /\ todo = <<>>
  /\ result' = [result EXCEPT !.Files = SortFiles(result.Files)]
  /\ aret' = [returned |-> TRUE, result |-> result', err |-> walkErr]
  /\ pc' = "l_done"
  /\ UNCHANGED << fs, opts, xform, scanStart, todo, walkErr, streamVars, aerrors, totalFiles,
                  processedFiles, progress >>

Next ==
  \/ RunCommand
  \/ WriteHeader
  \/ ScanBegin
  \/ CollectPathsCallback
  \/ ScanWriteTree
  \/ ScanCallback
  \/ ScanReturn
  \/ WriteFooter
  \/ Close
  \/ AnalysisBegin
  \/ AnalysisCountCallback
  \/ AnalysisCountDone
  \/ AnalysisScanCallback
  \/ AnalysisReturn
  \/ LegacyBegin
  \/ LegacyScanCallback
  \/ LegacyReturn

Spec == Init /\ [][Next]_vars


(***************************************************************************)
(* Observations used by the properties.                                    *)
(***************************************************************************)
Range(seq) == {seq[i] : i \in DOMAIN seq}

\* the calls of the per-file callback, in order
FileCalls == SelectSeq(calls, LAMBDA c : c.op = "file")

\* the calls of the tree writer, in order
TreeCalls == SelectSeq(calls, LAMBDA c : c.op = "tree")

StreamingDone == pc \in {"returned", "footer", "closed"}
BatchDone == pc \in {"a_done", "l_done"}

\* the files of the tree
FileEntries == {e \in fs.entries : ~e.dir}

\* the proper ancestors of an entry, the root included
Ancestors(path) == {SubSeq(path, 1, k) : k \in 0..(Len(path) - 1)}

\* some directory above the entry carries an excluded name
UnderExcluded(path) ==
  \E d \in Ancestors(path) : \E i \in DOMAIN opts.ExcludeDirs :
     NameOf(d) = opts.ExcludeDirs[i]

\* the walk cannot get to the entry: the root cannot be stat-ed or a
\* directory above the entry cannot be listed
Blocked(path) ==
  \/ fs.rootStat # "ok"
  \/ \E d \in Ancestors(path) : d \in fs.noread

\* the size of the file on disk, looked up by its relative path
RECURSIVE SumSeq(_)
SumSeq(seq) == IF seq = <<>> THEN 0 ELSE seq[1] + SumSeq(Tail(seq))

DiskSize(relativePath) ==
  Len((CHOOSE e \in FileEntries : GetRelativePath(e.path) = relativePath).content)

DiskSizes(records) == SumSeq([i \in DOMAIN records |-> DiskSize(records[i].RelativePath)])

(***************************************************************************)
(* Properties.                                                             *)
(***************************************************************************)

\* C1: in every state of a streaming or batch scan the number of files
\* counted equals the number of text files plus the number of binary files.
C1_TotalIsTextPlusBinary ==
  /\ stats.TotalFiles = stats.TextFiles + stats.BinaryFiles
  /\ ret.stats.TotalFiles = ret.stats.TextFiles + ret.stats.BinaryFiles
  /\ result.TotalFiles = result.TextFiles + result.BinaryFiles
  /\ aret.result.TotalFiles = aret.result.TextFiles + aret.result.BinaryFiles

\* a streaming scan that counted a text file and a binary file, had a read
\* failure and a callback failure
C1_Witness ==
  /\ stats.TextFiles >= 1
  /\ stats.BinaryFiles >= 1
  /\ \E i \in DOMAIN errors : errors[i].Phase = "write"
  /\ \E i \in DOMAIN errors : errors[i].Phase = "read"

\* C2: at every point of a scan the total size is the sum of the on-disk
\* sizes of exactly the files counted so far, whatever IncludeContent is
\* and whether or not a read failed.
C2_TotalSizeIsSumOfDiskSizes ==
  /\ stats.TotalFiles = Len(FileCalls)
  /\ stats.TotalSize = DiskSizes([i \in DOMAIN FileCalls |-> FileCalls[i].arg])
  /\ result.TotalFiles = Len(result.Files)
  /\ result.TotalSize = DiskSizes(result.Files)

\* two files counted by a streaming scan that read no content for one of
\* them because the read failed
C2_Witness ==
  /\ stats.TotalFiles >= 2
  /\ stats.TotalSize > 0
  /\ opts.IncludeContent
  /\ \E i \in DOMAIN errors : errors[i].Phase = "read"

\* C3: once the per-file callback has failed, it is not called again, and
\* Scan returns an error that names the path of the failed file.
C3_CallbackFailureAborts ==
  \A i \in DOMAIN FileCalls :
     ~FileCalls[i].ok =>
        /\ i = Len(FileCalls)
        /\ ret.returned => /\ ret.err # NoError
                           /\ ret.err.path = FileCalls[i].arg.Path

\* C4: when the per-file callback failed, Scan still returns the statistics
\* accumulated by the scanner, and the failure is in the error list with
\* phase "write" and Skipped = FALSE.
C4_CallbackFailureKeepsStatsAndError ==
  \A i \in DOMAIN FileCalls :
     ~FileCalls[i].ok =>
        /\ \E k \in DOMAIN errors :
              /\ errors[k].Path = FileCalls[i].arg.Path
              /\ errors[k].Phase = "write"
              /\ ~errors[k].Skipped
        /\ ret.returned => /\ ret.hasStats
                           /\ ret.stats = stats
                           /\ ret.stats.TotalFiles >= i

C4_Witness ==
  /\ ret.returned
  /\ \E i \in DOMAIN FileCalls : ~FileCalls[i].ok
  /\ ret.stats.TotalFiles >= 1


\* position of a sink operation in the emission order
Rank(op) ==
  CASE op = "header" -> 1
    [] op = "tree" -> 2
    [] op = "file" -> 3
    [] op = "footer" -> 4
    [] op = "close" -> 5

CountCalls(op) == Cardinality({i \in DOMAIN calls : calls[i].op = op})

\* C5: the sink sees the header once and first, the tree at most once and
\* only if a tree was requested, then the files, then the footer once,
\* then the close; the tree writer is never called after a file was
\* delivered.
C5_EmissionOrder ==
  /\ \A i, j \in DOMAIN calls : i < j => Rank(calls[i].op) <= Rank(calls[j].op)
  /\ \A op \in {"header", "tree", "footer", "close"} : CountCalls(op) <= 1
  /\ calls # <<>> => calls[1].op = "header"
  /\ CountCalls("tree") > 0 => opts.IncludeDirectoryTree
  /\ (pc = "closed" /\ ret.err = NoError) =>
        /\ CountCalls("header") = 1
        /\ CountCalls("footer") = 1
        /\ calls[Len(calls)].op = "close"

\* a closed stream that carried a tree and two files
C5_Witness ==
  /\ pc = "closed"
  /\ CountCalls("tree") = 1
  /\ CountCalls("file") >= 2
  /\ CountCalls("footer") = 1

\* C6: when the root cannot be stat-ed, Scan returns an error, neither the
\* tree writer nor the per-file callback is called, and no statistics are
\* produced.
C6_UnstatableRootIsFatal ==
  fs.rootStat # "ok" =>
     /\ CountCalls("tree") = 0
     /\ CountCalls("file") = 0
     /\ ret.returned => ret.err # NoError

\* the file can be reached by the walk, passes the filters and can be stat-ed
Expected(e) ==
  /\ ~e.dir
  /\ ~UnderExcluded(e.path)
  /\ ~Blocked(e.path)
  /\ e.path \notin fs.nostat
  /\ shouldIncludeFile(FullPath(e.path), opts.IncludeExts)

\* the directories below the root that the walk reaches and cannot list
TraversalErrors ==
  {d \in {e \in fs.entries : e.dir} :
     /\ d.path \in fs.noread
     /\ ~UnderExcluded(d.path)
     /\ ~Blocked(d.path)
     /\ \A i \in DOMAIN opts.ExcludeDirs : NameOf(d.path) # opts.ExcludeDirs[i]}

HasRecord(records, e) ==
  \E i \in DOMAIN records : records[i].RelativePath = GetRelativePath(e.path)

HasError(errs, path, phase) ==
  \E i \in DOMAIN errs : errs[i].Path = path /\ errs[i].Phase = phase

Records(fileCalls) == [i \in DOMAIN fileCalls |-> fileCalls[i].arg]

\* C7: in the streaming scan and in the batch scans an error on an entry
\* below the root is not fatal: it is recorded, the scan returns a nil
\* error, and every file the walk can still reach has its record.
C7_TraversalErrorNotFatal ==
  TraversalErrors # {} =>
     /\ (ret.returned /\ ret.hasStats) =>
           /\ ret.err = NoError
           /\ \A d \in TraversalErrors : HasError(errors, FullPath(d.path), "scan")
           /\ \A e \in fs.entries : Expected(e) => HasRecord(Records(FileCalls), e)
     /\ aret.returned =>
           /\ aret.err = NoError
           /\ \A d \in TraversalErrors : HasError(aerrors, FullPath(d.path), "scan")
           /\ \A e \in fs.entries : Expected(e) => HasRecord(aret.result.Files, e)

\* the read of the record's file was attempted and failed
ReadFailed(record) ==
  /\ opts.IncludeContent
  /\ record.IsText
  /\ \E e \in FileEntries : /\ GetRelativePath(e.path) = record.RelativePath
                            /\ e.path \in fs.noread

ReadErrors(errs, path) ==
  Cardinality({i \in DOMAIN errs : errs[i].Path = path /\ errs[i].Phase = "read"})

\* the record of a file whose read failed: no content, no lines, one error
ReadFailureRecord(record, errs) ==
  IF ReadFailed(record)
  THEN /\ record.Content = <<>>
       /\ record.LineCount = 0
       /\ ReadErrors(errs, record.Path) = 1
  ELSE ReadErrors(errs, record.Path) = 0

\* C8: a failed read does not abort the streaming scan or the two-pass
\* batch scan: the file's record is delivered or appended with empty
\* content and no lines, it is counted, one "read" error is recorded for
\* it, and (no callback failing) every other file still gets its record.
C8_ReadFailureNotFatal ==
  /\ \A i \in DOMAIN FileCalls : ReadFailureRecord(FileCalls[i].arg, errors)
  /\ stats.TotalFiles = Len(FileCalls)
  /\ (ret.returned /\ ret.hasStats /\ \A i \in DOMAIN FileCalls : FileCalls[i].ok) =>
        /\ ret.err = NoError
        /\ \A e \in fs.entries : Expected(e) => HasRecord(Records(FileCalls), e)
  /\ pc \in {"a_walk", "a_done"} =>
        /\ \A i \in DOMAIN result.Files : ReadFailureRecord(result.Files[i], aerrors)
        /\ result.TotalFiles = Len(result.Files)
  /\ pc = "a_done" =>
        /\ aret.err = NoError
        /\ \A e \in fs.entries : Expected(e) => HasRecord(aret.result.Files, e)

\* a finished streaming scan in which a file was delivered after the file
\* whose read failed
C8_Witness ==
  /\ pc = "closed"
  /\ \E i \in DOMAIN FileCalls :
        /\ ReadFailed(FileCalls[i].arg)
        /\ i < Len(FileCalls)
        /\ FileCalls[Len(FileCalls)].arg.LineCount > 0

\* C9: nothing below a directory whose basename is in the exclusion list
\* is visited by a scanning traversal, listed in the path list, turned
\* into a record, counted or read; the match is exact equality: a list
\* whose entries differ from every directory name in case or by a prefix
\* prunes nothing.
C9_ExcludedDirectoriesPruned ==
  /\ \A e \in FileEntries :
        UnderExcluded(e.path) =>
           /\ GetRelativePath(e.path) \notin Range(filePaths)
           /\ ~HasRecord(Records(FileCalls), e)
           /\ ~HasRecord(result.Files, e)
           /\ \A i \in DOMAIN errors : errors[i].Path # FullPath(e.path)
           /\ \A i \in DOMAIN aerrors : aerrors[i].Path # FullPath(e.path)
  /\ stats.TotalFiles = Len(FileCalls)
  /\ result.TotalFiles = Len(result.Files)
  /\ pc \in {"collect", "walk", "a_walk", "l_walk"} =>
        \A i \in DOMAIN todo : ~UnderExcluded(todo[i].path)
  /\ (pc = "closed" /\ ret.err = NoError /\ Len(opts.ExcludeDirs) = 2
        /\ opts.IncludeExts = <<>> /\ fs.rootStat = "ok"
        /\ fs.noread = {} /\ fs.nostat = {}) =>
        CountCalls("file") = Cardinality(FileEntries)

\* a finished streaming scan of a tree with a file two levels below an
\* excluded directory's parent, in which another file was listed and
\* delivered
C9_Witness ==
  /\ pc = "closed"
  /\ \E e \in FileEntries : UnderExcluded(e.path) /\ Len(e.path) = 3
  /\ fs.rootName \notin Range(opts.ExcludeDirs)
  /\ filePaths # <<>>
  /\ CountCalls("file") >= 1

\* the inclusion rule as the specification words it
EndsWith(p, x) ==
  Len(x) <= Len(p) /\ \A k \in 1..Len(x) : p[Len(p) - Len(x) + k] = x[k]

InAllowList(path) ==
  \/ opts.IncludeExts = <<>>
  \/ \E i \in DOMAIN opts.IncludeExts :
        EndsWith(ToLower(path), ToLower(opts.IncludeExts[i]))

\* the file can be reached by the walk and can be stat-ed
Scannable(e) ==
  /\ ~e.dir
  /\ ~UnderExcluded(e.path)
  /\ ~Blocked(e.path)
  /\ e.path \notin fs.nostat

\* C10: a file outside excluded directories is listed, delivered or
\* appended exactly when the allow-list is empty or its lower-cased full
\* path ends with a lower-cased entry of the allow-list.
C10_IncludedIffInAllowList ==
  /\ (opts.IncludeDirectoryTree /\ pc \in {"walk", "returned", "footer", "closed"}) =>
        \A e \in FileEntries :
           (~UnderExcluded(e.path) /\ ~Blocked(e.path)) =>
              (GetRelativePath(e.path) \in Range(filePaths) <=> InAllowList(FullPath(e.path)))
  /\ (ret.returned /\ ret.hasStats) =>
        \A e \in FileEntries :
           Scannable(e) => (HasRecord(Records(FileCalls), e) <=> InAllowList(FullPath(e.path)))
  /\ (aret.returned /\ aret.err = NoError) =>
        \A e \in FileEntries :
           Scannable(e) => (HasRecord(aret.result.Files, e) <=> InAllowList(FullPath(e.path)))

\* a finished streaming scan with a non-empty allow-list that delivered a
\* file with an upper-case extension and left another file out
C10_Witness ==
  /\ pc = "closed"
  /\ opts.IncludeExts # <<>>
  /\ \E i \in DOMAIN FileCalls : FileCalls[i].arg.Extension = <<".", "G", "O">>
  /\ \E e \in FileEntries : Scannable(e) /\ ~HasRecord(Records(FileCalls), e)


\* the records the scanners have produced so far
AllRecords == Range(Records(FileCalls)) \cup Range(result.Files)

\* C11: when IncludeContent is false no record of the streaming or of the
\* batch scans carries content or a line count, whatever its IsText.
C11_NoContentUnlessRequested ==
  ~opts.IncludeContent =>
     \A r \in AllRecords : r.Content = <<>> /\ r.LineCount = 0

\* a finished streaming scan without content that delivered a non-empty
\* text file and a non-empty file that is not text
C11_Witness ==
  /\ pc = "closed"
  /\ ~opts.IncludeContent
  /\ \E r \in AllRecords : r.IsText /\ r.Size > 0
  /\ \E r \in AllRecords : ~r.IsText /\ r.Size > 0

\* C12: every record has content only if it is text, and a non-zero line
\* count exactly when it has content.
C12_RecordInvariant ==
  \A r \in AllRecords :
     /\ r.Content # <<>> => r.IsText
     /\ r.LineCount # 0 <=> r.Content # <<>>

\* a finished streaming scan that delivered a record whose content has no
\* line feed
C12_Witness ==
  /\ pc = "closed"
  /\ \E r \in Range(Records(FileCalls)) :
        r.Content # <<>> /\ \A i \in DOMAIN r.Content : r.Content[i] # LF

\* C13: with IncludeContent set, a readable file that matches neither the
\* text extensions nor the text file names is classified by the sniffing
\* test on its content.
C13_SniffedWhenFastPathFails ==
  \A i \in DOMAIN FileCalls :
     \A e \in FileEntries :
        (/\ opts.IncludeContent
         /\ GetRelativePath(e.path) = FileCalls[i].arg.RelativePath
         /\ e.path \notin fs.noread
         /\ ~isTextFile(FullPath(e.path), Ext(FullPath(e.path))))
        => (FileCalls[i].arg.IsText <=> isTextContent(e.content))


(***************************************************************************)
(* Two scans of the same tree: a batch scanner is run on the root after    *)
(* the streaming scan has finished.  The scanners share no state.          *)
(***************************************************************************)
\* NewAnalysisScanner(root, opts).Scan() of the two-pass scanner
AnalysisAfterStreaming ==
  /\ pc = "closed"
  /\ ret.hasStats
  /\ result' = NewResult
  /\ totalFiles' = 0
  /\ progress' = analysisReportProgress("counting", <<".", ".", ".">>, 0, 0)
  /\ todo' = <<RootItem>>
  /\ walkErr' = NoError
  /\ pc' = "a_count"
  /\ UNCHANGED << fs, opts, xform, scanStart, streamVars, aerrors, processedFiles, aret >>

\* NewAnalysisScanner(root, opts).Scan() of the single-pass scanner
LegacyAfterStreaming ==
  /\ pc = "closed"
  /\ ret.hasStats
  /\ result' = NewResult
  /\ todo' = <<RootItem>>
  /\ walkErr' = NoError
  /\ pc' = "l_walk"
  /\ UNCHANGED << fs, opts, xform, scanStart, streamVars, aerrors, totalFiles, processedFiles,
                  aret, progress >>

NextBoth ==
  \/ Next
  \/ AnalysisAfterStreaming
  \/ LegacyAfterStreaming

SpecBoth == Init /\ [][NextBoth]_vars

\* what the two modes are compared on
Tuple(r) ==
  [RelativePath |-> r.RelativePath, Size |-> r.Size,
   Language |-> r.Language, IsText |-> r.IsText]

Tuples(records) == {Tuple(records[i]) : i \in DOMAIN records}

SameTotals(s, r) ==
  /\ s.TotalFiles = r.TotalFiles
  /\ s.TotalSize = r.TotalSize
  /\ s.TextFiles = r.TextFiles
  /\ s.BinaryFiles = r.BinaryFiles
  /\ s.LanguageCounts = r.LanguageCounts

\* a streaming scan whose callback always succeeded and a batch scan have
\* both returned without error
BothReturned ==
  /\ ret.returned /\ ret.hasStats /\ ret.err = NoError
  /\ \A i \in DOMAIN FileCalls : FileCalls[i].ok
  /\ aret.returned /\ aret.err = NoError

\* C14: a streaming scan whose callback always succeeds and a batch scan
\* of the same tree under the same options produce the same set of
\* {RelativePath, Size, Language, IsText} tuples and the same totals.
C14_BatchEqualsStreaming ==
  BothReturned =>
     /\ Tuples(Records(FileCalls)) = Tuples(aret.result.Files)
     /\ SameTotals(ret.stats, aret.result)


(***************************************************************************)
(* The JSON streaming writer.  Its output is kept as a sequence of JSON    *)
(* tokens: the punctuation marks, "str" for a string literal and "num"     *)
(* for a number; json.Marshal and json.MarshalIndent yield one value.      *)
(***************************************************************************)
\* NewStreamingJSONWriter
NewStreamingJSONWriter == [out |-> <<>>, firstFile |-> TRUE]

\* jsonString(s): one string literal
jsonString == <<"str">>

\* json.MarshalIndent(file, ...): one object
MarshalFile(file) == <<"{", "str", ":">> \o jsonString \o <<"}">>

\* StreamingJSONWriter.WriteHeader
jsonWriteHeader(w) ==
  [w EXCEPT !.out = @ \o <<"{">>
                      \o <<"str", ":">> \o jsonString \o <<",">>
                      \o <<"str", ":">> \o jsonString \o <<",">>
                      \o <<"str", ":", "str", ",">>
                      \o <<"str", ":", "[">>]

\* StreamingJSONWriter.WriteTree, includeTree being the writer's
\* opts.IncludeDirectoryTree
jsonWriteTree(w, paths, includeTree) ==
  IF ~includeTree \/ Len(paths) = 0 THEN w
  ELSE [w EXCEPT !.out = @ \o <<"str", ":">> \o jsonString \o <<",">>]

\* StreamingJSONWriter.WriteFile
jsonWriteFile(w, file) ==
  [out |-> w.out \o (IF ~w.firstFile THEN <<",">> ELSE <<>>) \o MarshalFile(file),
   firstFile |-> FALSE]

\* StreamingJSONWriter.WriteFooter
jsonWriteFooter(w) ==
  [w EXCEPT !.out = @ \o <<"]", ",">>
                      \o <<"str", ":", "{">>
                      \o <<"str", ":", "num", ",">>
                      \o <<"str", ":">> \o jsonString \o <<",">>
                      \o <<"str", ":", "num", ",">>
                      \o <<"str", ":", "num">>
                      \o <<"}", "}">>]

\* StreamingJSONWriter.Close flushes the buffer
jsonClose(w) == w

\* the writer after one call of the emission sink
jsonCall(w, call) ==
  CASE call.op = "header" -> jsonWriteHeader(w)
    [] call.op = "tree" -> jsonWriteTree(w, call.arg, opts.IncludeDirectoryTree)
    [] call.op = "file" -> jsonWriteFile(w, call.arg)
    [] call.op = "footer" -> jsonWriteFooter(w)
    [] call.op = "close" -> jsonClose(w)

\* the writer after the calls cs, made in order on the writer w
RECURSIVE jsonReplay(_, _)
jsonReplay(w, cs) ==
  IF cs = <<>> THEN w ELSE jsonReplay(jsonCall(w, Head(cs)), Tail(cs))

\* the token sequence is one JSON value: a pushdown recogniser whose stack
\* holds the open brackets and whose mode tells what may come next
RECURSIVE JSONAccepts(_, _, _)
JSONStep(t, rest, stack, mode) ==
  CASE mode = "value" \/ (mode = "first" /\ stack[1] = "[" /\ t # "]") ->
         IF t \in {"str", "num"} THEN JSONAccepts(rest, stack, "after")
         ELSE IF t \in {"{", "["} THEN JSONAccepts(rest, <<t>> \o stack, "first")
         ELSE FALSE
    [] mode = "first" /\ stack[1] = "[" /\ t = "]" ->
         JSONAccepts(rest, Tail(stack), "after")
    [] mode = "first" /\ stack[1] = "{" ->
         IF t = "}" THEN JSONAccepts(rest, Tail(stack), "after")
         ELSE IF t = "str" THEN JSONAccepts(rest, stack, "colon")
         ELSE FALSE
    [] mode = "key" -> t = "str" /\ JSONAccepts(rest, stack, "colon")
    [] mode = "colon" -> t = ":" /\ JSONAccepts(rest, stack, "value")
    [] mode = "after" ->
         IF stack = <<>> THEN FALSE
         ELSE IF t = "," THEN JSONAccepts(rest, stack,
                                 IF stack[1] = "{" THEN "key" ELSE "value")
         ELSE IF (t = "}" /\ stack[1] = "{") \/ (t = "]" /\ stack[1] = "[")
         THEN JSONAccepts(rest, Tail(stack), "after")
         ELSE FALSE

JSONAccepts(toks, stack, mode) ==
  IF toks = <<>> THEN mode = "after" /\ stack = <<>>
  ELSE JSONStep(Head(toks), Tail(toks), stack, mode)

WellFormedJSON(toks) == JSONAccepts(toks, <<>>, "value")

\* every call of the emission sink succeeded and the stream is closed
StreamComplete ==
  /\ pc = "closed"
  /\ ret.err = NoError
  /\ \A i \in DOMAIN calls : calls[i].ok

\* C15: the JSON writer's output after header, tree (when requested), any
\* number of files, footer and close is one well-formed JSON document.
C15_JSONWellFormed ==
  StreamComplete => WellFormedJSON(jsonReplay(NewStreamingJSONWriter, calls).out)


\* non-decreasing ordinal order of RelativePath
SortedByRelativePath(files) ==
  \A i, j \in DOMAIN files :
     i < j => ~StrLess(files[j].RelativePath, files[i].RelativePath)

Occurrences(seq, x) == Cardinality({i \in DOMAIN seq : seq[i] = x})

IsPermutation(a, b) ==
  /\ Len(a) = Len(b)
  /\ \A x \in Range(a) \cup Range(b) : Occurrences(a, x) = Occurrences(b, x)

\* C16: when a batch scan returns, with or without an error, the Files it
\* returns are sorted by RelativePath in ordinal order and are a
\* permutation of the records appended during the traversal.
C16_FilesSortedPermutation ==
  [][(~aret.returned /\ aret'.returned) =>
        /\ SortedByRelativePath(aret'.result.Files)
        /\ IsPermutation(result.Files, aret'.result.Files)]_vars

\* a returned batch scan whose traversal met "a/m.GO" before "a.go"
C16_Witness ==
  /\ aret.returned
  /\ Len(aret.result.Files) = 2
  /\ aret.result.Files[1].RelativePath = <<"a", ".", "g", "o">>
  /\ aret.result.Files[2].RelativePath = <<"a", "/", "m", ".", "G", "O">>


\* the path lists handed to the tree writer
TreeLists == {calls[i].arg : i \in {k \in DOMAIN calls : calls[k].op = "tree"}}

\* C17: the relative-path list handed to the tree writer is sorted in
\* non-decreasing ordinal string order.
C17_TreeListSorted ==
  \A paths \in TreeLists :
     \A i, j \in DOMAIN paths : i < j => ~StrLess(paths[j], paths[i])


\* the record's Language was taken from the content of the entry e
LanguageFromContent(r, e) ==
  /\ GetRelativePath(e.path) = r.RelativePath
  /\ opts.IncludeContent
  /\ r.IsText
  /\ e.path \notin fs.noread
  /\ detectLanguage(FullPath(e.path)) = ""

\* C18: the Language of a record is determined by the file's name and
\* content: no other run of the scan can give the file another tag.
C18_LanguageDeterministic ==
  \A i \in DOMAIN FileCalls : \A e \in FileEntries :
     LanguageFromContent(FileCalls[i].arg, e) =>
        detectLanguageFromContent(FullPath(e.path), e.content) = {FileCalls[i].arg.Language}

(***************************************************************************)
(* The content transformer on its own: stripComments applied to a text,    *)
(* and applied again to its own output.                                    *)
(***************************************************************************)
MaxText == 5

TextAlphabet == {"/", "*", "#", "x", LF}

\* texts whose comments span lines, nest, or sit in HTML
SampleTexts ==
  { <<"x", " ", ":", "=", " ", "1", " ", "/", "/", " ", "s", "e", "t", " ", "x", LF, "/", "*", " ", "b", "l", "o", "c", "k", " ", "*", "/", LF, "y", " ", ":", "=", " ", "2">>,
    <<"<", "<", "!", "-", "-", "-", "-", ">", "!", "-", "-", "-", "-", ">", "x">>,
    <<"a", " ", "#", " ", "b", LF, "c", " ", "#", " ", "d">>,
    <<"/", "/", "*", "*", "/", "*", "*", "/">>,
    <<"/", "/", "*", "*", "/", "*", "*", "/", LF, "x">>,
    <<"/", "*", "*", "/", LF, "x", " ", " ", "y", " ", LF>>,
    <<"x", " ", LF, "y", TAB, LF, "z">>,
    <<" ", "[", " ", "[", " ", "]", " ", "]", " ">>,
    <<"[", " ", "x", " ", "]", " ", LF>> }

\* contents with bytes that are not valid UTF-8, and with NUL bytes
ByteSamples ==
  { <<"x", "x", "x", "x", "x", "x", "x", "x", "x", BAD>>,
    <<"x", "x", "x", "x", "x", "x", "x", "x", "x", "x", BAD, "x">>,
    <<"x", "x", "x", "x", "x", "x", "x", "x", BAD, BAD>>,
    <<"x", LF, LF, LF, "x", "x", "x", "x", "x", "x", BAD>>,
    <<"x", BAD>>,
    <<"x", NUL>>,
    <<"x", "x", "x", "x", "x", "x", "x", "x", "x", BAD, NUL>> }

Texts ==
  UNION { [1..n -> TextAlphabet] : n \in 0..MaxText } \cup SampleTexts \cup ByteSamples

\* one language tag of every branch of stripComments and of compressWhitespace
TextLanguages == {"go", "python", "html", "css", "markdown", "json"}

TransformOptions ==
  [IncludeDirectoryTree |-> FALSE, IncludeContent |-> TRUE,
   ExcludeDirs |-> <<>>, IncludeExts |-> <<>>,
   RemoveComments |-> TRUE, RemoveEmptyLines |-> FALSE, CompressCode |-> FALSE]

InitTransform ==
  /\ fs = [rootName |-> <<>>, rootStat |-> "missing", entries |-> {},
           noread |-> {}, nostat |-> {}]
  /\ opts = TransformOptions
  /\ treeWriter = TRUE
  /\ pc = "transform"
  /\ todo = <<>>
  /\ walkErr = NoError
  /\ stats = NewStats
  /\ errors = <<>>
  /\ filePaths = <<>>
  /\ ret = NoReturn
  /\ calls = <<>>
  /\ result = NewResult
  /\ aerrors = <<>>
  /\ totalFiles = 0
  /\ processedFiles = 0
  /\ aret = NoResult
  /\ progress = NoProgress
  /\ scanStart = <<0>>
  /\ xform \in { [stage |-> "input", content |-> t, language |-> l,
                  once |-> <<>>, twice |-> <<>>,
                  flags |-> NoFlags, processed |-> <<>>, isText |-> FALSE] :
                   t \in Texts, l \in TextLanguages }

\* content = stripComments(content, language)
StripCommentsOnce ==
  /\ xform.stage = "input"
  /\ xform' = [xform EXCEPT !.stage = "once",
                            !.once = stripComments(xform.content, xform.language)]
  /\ UNCHANGED << fs, opts, treeWriter, pc, todo, walkErr, stats, errors,
                  filePaths, ret, calls, result, aerrors, totalFiles,
                  processedFiles, aret, progress, scanStart >>

\* stripComments applied to what stripComments returned
StripCommentsAgain ==
  /\ xform.stage = "once"
  /\ xform' = [xform EXCEPT !.stage = "twice",
                            !.twice = stripComments(xform.once, xform.language)]
  /\ UNCHANGED << fs, opts, treeWriter, pc, todo, walkErr, stats, errors,
                  filePaths, ret, calls, result, aerrors, totalFiles,
                  processedFiles, aret, progress, scanStart >>

\* the three flags of ScanOptions that processFileContent reads
TransformFlags ==
  [RemoveComments : BOOLEAN, RemoveEmptyLines : BOOLEAN, CompressCode : BOOLEAN]

\* processed := processFileContent(content, language, opts)
ProcessContent ==
  /\ xform.stage = "input"
  /\ \E o \in TransformFlags :
       xform' = [xform EXCEPT !.stage = "processed",
                              !.flags = o,
                              !.processed =
                                 processFileContent(xform.content, xform.language, o)]
  /\ UNCHANGED << fs, opts, treeWriter, pc, todo, walkErr, stats, errors,
                  filePaths, ret, calls, result, aerrors, totalFiles,
                  processedFiles, aret, progress, scanStart >>

\* fileInfo.IsText = isTextContent(content)
SniffContent ==
  /\ xform.stage = "input"
  /\ xform' = [xform EXCEPT !.stage = "sniffed",
                            !.isText = isTextContent(xform.content)]
  /\ UNCHANGED << fs, opts, treeWriter, pc, todo, walkErr, stats, errors,
                  filePaths, ret, calls, result, aerrors, totalFiles,
                  processedFiles, aret, progress, scanStart >>

NextTransform ==
  StripCommentsOnce \/ StripCommentsAgain \/ ProcessContent \/ SniffContent

SpecTransform == InitTransform /\ [][NextTransform]_vars

CFamily == {"go", "javascript", "typescript", "java", "cpp", "c", "rust", "php"}

\* the line without its "//" comment
CutLine(line, marker) ==
  IF \E i \in DOMAIN line : HasAt(line, i, marker)
  THEN SubSeq(line, 1,
         (CHOOSE i \in DOMAIN line :
            /\ HasAt(line, i, marker)
            /\ \A j \in 1..(i - 1) : ~HasAt(line, j, marker)) - 1)
  ELSE line

CutLines(lines, marker) == [i \in DOMAIN lines |-> CutLine(lines[i], marker)]

\* the text with every "//" comment of every line and then every shortest
\* "/* ... */" span removed
WithoutCComments(content) ==
  RemoveSpans(Join(CutLines(Split(content), <<"/", "/">>), <<LF>>),
              <<"/", "*">>, <<"*", "/">>)

\* C19: for a C-family language, stripComments returns the text with the
\* "//" comment of every line, not only of the last line, and every shortest
\* "/* ... */" span removed
C19_EveryLineCommentStripped ==
  (xform.stage \in {"once", "twice"} /\ xform.language \in CFamily)
    => xform.once = WithoutCComments(xform.content)

\* C20: stripComments applied to its own output returns that output unchanged,
\* for every text and every language tag
C20_StripCommentsIdempotent ==
  xform.stage = "twice" => xform.twice = xform.once


\* the stage's output: f when the stage's flag is set, its input otherwise
StageOutput(enabled, input, f) == IF enabled THEN f ELSE input

AfterComments ==
  StageOutput(xform.flags.RemoveComments, xform.content,
              stripComments(xform.content, xform.language))

AfterEmptyLines ==
  StageOutput(xform.flags.RemoveEmptyLines, AfterComments,
              stripEmptyLines(AfterComments))

AfterCompression ==
  StageOutput(xform.flags.CompressCode, AfterEmptyLines,
              compressWhitespace(AfterEmptyLines, xform.language))

\* C21: processFileContent returns the content after comment removal, then
\* empty-line removal, then whitespace compression, each applied to the
\* previous stage's output and only when its flag is set; with the three
\* flags off it returns the content unchanged
C21_TransformOrder ==
  xform.stage = "processed" =>
    /\ xform.processed = AfterCompression
    /\ xform.flags = NoFlags => xform.processed = xform.content

\* the three stages are enabled and each changes its input, and removing
\* empty lines before comments would give another text
C21_Witness ==
  /\ xform.stage = "processed"
  /\ xform.flags.RemoveComments /\ xform.flags.RemoveEmptyLines /\ xform.flags.CompressCode
  /\ AfterComments # xform.content
  /\ AfterEmptyLines # AfterComments
  /\ AfterCompression # AfterEmptyLines
  /\ xform.processed # stripComments(stripEmptyLines(xform.content), xform.language)


OnlyCompressCode ==
  [RemoveComments |-> FALSE, RemoveEmptyLines |-> FALSE, CompressCode |-> TRUE]

EndsInBlank(line) == line # <<>> /\ line[Len(line)] \in {" ", TAB}

NoLineEndsInBlank(lines) == \A i \in DOMAIN lines : ~EndsInBlank(lines[i])

\* C22: unless the content is JSON that minifies, no line of the text that
\* compressWhitespace returns ends in a space or a tab
C22_NoTrailingBlanksOnAnyLine ==
  ( /\ xform.stage = "processed"
    /\ xform.flags = OnlyCompressCode
    /\ ~(xform.language = "json" /\ jsonMinify(xform.content) # <<>>) )
    => NoLineEndsInBlank(Split(xform.processed))


InvalidUnits(sample) == Cardinality({i \in DOMAIN sample : Ord[sample[i]] >= 128})

PrintableBytes(sample) ==
  Cardinality({i \in DOMAIN sample :
                 Ord[sample[i]] \in 32..126 \/ sample[i] = TAB \/ Ord[sample[i]] = 13})

\* text exactly when at most 10% of the units are invalid and at least 80%
\* of the bytes are printable
ClassifiedText(sample) ==
  /\ InvalidUnits(sample) * 10 <= Len(sample)
  /\ PrintableBytes(sample) * 10 >= Len(sample) * 8

\* C23: for a non-empty sample without a NUL byte, isTextContent answers
\* binary when more than 10% of the units are invalid UTF-8, and otherwise
\* text exactly when at least 80% of the bytes are printable
C23_SniffingRule ==
  ( /\ xform.stage = "sniffed"
    /\ xform.content # <<>>
    /\ \A i \in DOMAIN xform.content : xform.content[i] # NUL )
    => (xform.isText <=> ClassifiedText(xform.content))


\* os.ReadFile was called on the record's file and succeeded
ContentWasRead(r, e) == opts.IncludeContent /\ r.IsText /\ e.path \notin fs.noread

\* the non-empty tags the shebang line can give
ShebangLanguages(content) == detectFromShebang(content) \ {""}

\* extension first; then, when content was read, shebang, then patterns
LanguageRule(language, byExtension, read, content) ==
  IF byExtension # "" THEN language = byExtension
  ELSE IF ~read THEN language = ""
  ELSE IF ShebangLanguages(content) # {} THEN language \in ShebangLanguages(content)
  ELSE language = detectFromPatterns(content)

\* C24: the Language of a delivered record is the tag of the extension when
\* there is one; otherwise, when the content was read, a tag of the shebang
\* line when there is one, else the tag of the first pattern found in the
\* first 1024 bytes; otherwise the empty string
C24_LanguageOrder ==
  \A i \in DOMAIN FileCalls : \A e \in FileEntries :
     GetRelativePath(e.path) = FileCalls[i].arg.RelativePath =>
        LanguageRule(FileCalls[i].arg.Language, detectLanguage(FullPath(e.path)),
                     ContentWasRead(FileCalls[i].arg, e), e.content)

\* a scan with content delivered a record tagged by its extension although a
\* pattern occurs in its content, and a record tagged by a pattern
C24_Witness ==
  /\ pc = "closed"
  /\ opts.IncludeContent
  /\ \E i \in DOMAIN FileCalls : \E e \in FileEntries :
        /\ GetRelativePath(e.path) = FileCalls[i].arg.RelativePath
        /\ FileCalls[i].arg.Language = "go"
        /\ detectFromPatterns(e.content) = "html"
  /\ \E i \in DOMAIN FileCalls : \E e \in FileEntries :
        /\ GetRelativePath(e.path) = FileCalls[i].arg.RelativePath
        /\ detectLanguage(FullPath(e.path)) = ""
        /\ detectFromShebang(e.content) = {""}
        /\ FileCalls[i].arg.Language = "html"


\* the lower-cased extension is a text extension or the lower-cased basename
\* is a text file name
OnFastPath(path) ==
  \/ ToLower(Ext(path)) \in textExtensions
  \/ ToLower(Base(path)) \in textFiles

\* C25: a record whose file has a text extension or a text file name has
\* IsText set, whatever its content and whether or not content is included;
\* a record whose file has neither has IsText unset when content is not
\* included
C25_FastPathClassification ==
  \A r \in AllRecords :
     /\ OnFastPath(r.Path) => r.IsText
     /\ (~OnFastPath(r.Path) /\ ~opts.IncludeContent) => ~r.IsText

\* a scan without content delivered a text record of a file that holds a NUL
\* byte and a record of a file that is not on the fast path
C25_Witness ==
  /\ pc = "closed"
  /\ ~opts.IncludeContent
  /\ \E i \in DOMAIN FileCalls : \E e \in FileEntries :
        /\ GetRelativePath(e.path) = FileCalls[i].arg.RelativePath
        /\ \E k \in DOMAIN e.content : e.content[k] = NUL
        /\ FileCalls[i].arg.IsText
  /\ \E i \in DOMAIN FileCalls :
        ~OnFastPath(FileCalls[i].arg.Path) /\ ~FileCalls[i].arg.IsText


(***************************************************************************)
(* StreamingScanner.Scan called again on the same scanner instance.        *)
(***************************************************************************)
MaxScans == 2

\* s.Scan() once more after it returned: Scan assigns startTime and nothing
\* else before the first traversal, so stats, errors and filePaths are those
\* the previous call left
ScanAgain ==
  /\ pc = "returned"
  /\ Len(scanStart) < MaxScans
  /\ scanStart' = Append(scanStart, Len(FileCalls))
  /\ ret' = NoReturn
  /\ pc' = "begin"
  /\ UNCHANGED << fs, opts, xform, treeWriter, todo, walkErr, stats, errors,
                  filePaths, calls, batchVars, progress >>

NextAgain == Next \/ ScanAgain

SpecAgain == Init /\ [][NextAgain]_vars

\* the number of per-file callback calls made during the current call of Scan
CallsOfThisScan == Len(FileCalls) - scanStart[Len(scanStart)]

\* C26: when a call of Scan returns statistics, their TotalFiles is the
\* number of per-file callback calls made during that call of Scan, whether
\* it is the first call on the scanner instance or a later one
C26_StatsCountThisScan ==
  (ret.returned /\ ret.hasStats) => ret.stats.TotalFiles = CallsOfThisScan


\* no entry fails to be stat-ed and no directory fails to be listed
NoTraversalErrors ==
  /\ fs.rootStat = "ok"
  /\ fs.nostat = {}
  /\ \A e \in fs.entries : e.dir => e.path \notin fs.noread

RelativePaths(records) == [i \in DOMAIN records |-> records[i].RelativePath]

\* C27: when a tree is requested and no stat or traversal error occurs, the
\* paths collected by the first traversal, which are the paths given to the
\* tree writer, are the RelativePath values of the records the second
\* traversal delivers, in the same order and each once
C27_TreeListMatchesRecords ==
  (opts.IncludeDirectoryTree /\ NoTraversalErrors /\ ret.returned /\ ret.hasStats) =>
     /\ filePaths = RelativePaths(Records(FileCalls))
     /\ \A i \in DOMAIN TreeCalls : TreeCalls[i].arg = filePaths
     /\ \A i, j \in DOMAIN filePaths : filePaths[i] = filePaths[j] => i = j

\* a scan with a tree writer and an allow-list listed and delivered two files
\* and left a third one out; one of the delivered files could not be read
C27_Witness ==
  /\ pc = "closed"
  /\ opts.IncludeDirectoryTree /\ NoTraversalErrors /\ ret.hasStats
  /\ Len(TreeCalls) = 1
  /\ Len(filePaths) = 2
  /\ Len(FileCalls) = 2
  /\ opts.IncludeExts # <<>>
  /\ fs.noread # {}


\* every entry can be stat-ed, listed and read
ErrorFreeTree == fs.rootStat = "ok" /\ fs.nostat = {} /\ fs.noread = {}

\* C28: on an error-free tree the two-pass batch scanner's pre-pass total is
\* the number of files its second pass processed, whatever the exclusion
\* set, so that the last per-file progress report has
\* ProcessedFiles + 1 = TotalFiles
C28_PrePassTotalMatches ==
  /\ (pc = "a_done" /\ ErrorFreeTree) => totalFiles = processedFiles
  /\ (pc = "a_walk" /\ todo = <<>> /\ ErrorFreeTree /\ progress.Phase = "scanning") =>
        progress.ProcessedFiles + 1 = progress.TotalFiles


\* the tree writer was called and returned an error
TreeWriterFailed == \E i \in DOMAIN TreeCalls : ~TreeCalls[i].ok

\* C29: once the tree writer has returned an error, Scan has returned no
\* statistics and the error "failed to write tree", the second traversal is
\* not running, and the per-file callback has not been and is not called
C29_TreeWriterErrorAborts ==
  TreeWriterFailed =>
     /\ ret.returned
     /\ ~ret.hasStats
     /\ ret.err.kind = "failed to write tree"
     /\ pc \in {"returned", "closed"}
     /\ FileCalls = <<>>
     /\ stats = NewStats

\* the tree writer failed on a list of two files and the output was closed
C29_Witness ==
  /\ TreeWriterFailed
  /\ pc = "closed"
  /\ Len(filePaths) = 2


\* the basename of the root is an entry of the exclusion set
RootExcluded ==
  /\ fs.rootStat = "ok"
  /\ \E i \in DOMAIN opts.ExcludeDirs : fs.rootName = opts.ExcludeDirs[i]

ZeroStats(s) ==
  /\ s.TotalFiles = 0 /\ s.TotalSize = 0 /\ s.TextFiles = 0 /\ s.BinaryFiles = 0
  /\ s.LanguageCounts = <<>>

\* C30: when the root's basename is excluded the walks prune the root: no
\* path is collected, no record is delivered or appended, the statistics
\* stay zero, and the scan returns a nil error (unless the tree writer fails)
C30_ExcludedRootPruned ==
  RootExcluded =>
     /\ filePaths = <<>>
     /\ FileCalls = <<>>
     /\ ZeroStats(stats)
     /\ errors = <<>>
     /\ (ret.returned /\ ~TreeWriterFailed) =>
           ret.hasStats /\ ret.err = NoError /\ ZeroStats(ret.stats)
     /\ result.Files = <<>>
     /\ aret.returned =>
           /\ aret.err = NoError
           /\ aret.result.Files = <<>>
           /\ aret.result.TotalFiles = 0 /\ aret.result.TotalSize = 0

\* a streaming scan of an excluded root that holds two files has returned
C30_Witness ==
  /\ RootExcluded
  /\ Cardinality(FileEntries) = 2
  /\ ret.returned /\ ret.hasStats
  /\ pc = "closed"

====
